---- MODULE Spec2Model ----
(***************************************************************************)
(* Battleship: the rules engine (Game), the HTMX game routes (/new,        *)
(* /reset, /make-move) and the AI lobby routes (/ai/start, /ai/shot).      *)
(*                                                                         *)
(* Coordinates are pairs <<x, y>>.  Python sets are TLA+ sets, Python      *)
(* lists are sequences in the list's order.  A call of random / secrets    *)
(* is a nondeterministic choice among the values the call can return; the  *)
(* bounds below keep the choices finite and small.                         *)
(***************************************************************************)
EXTENDS Integers, Sequences, FiniteSets, TLC

\* ---------------------------------------------------------------- bounds
\* place_fleet draws x = secrets.randbelow(x_limit) as 0 and
\* y = secrets.randbelow(y_limit) in 0..Min(y_limit, MaxRandY)-1
MaxRandY == 3
\* coordinates submitted to Game.fire in the engine specifications:
\* x in -1..MaxShotX (y is 0)
MaxShotX == 3
\* Game.new in the route specifications draws y below MaxRouteRandY
MaxRouteRandY == 1
\* random.choice(list) returns one of the first MaxChoice elements of list
MaxChoice == 1
\* POST /new is served while the scores table holds fewer rows than this
MaxScores == 1
MaxTime == 3
MaxSessions == 2
MaxDays == 2
MaxExpertShots == 6

\* ------------------------------------------------------- program constants
DEFAULT_BOARD_SIZE == 8
MinBoardSize == 6
MaxBoardSize == 10

Min(a, b) == IF a < b THEN a ELSE b
Max(a, b) == IF a > b THEN a ELSE b

FLEET_CONFIGS ==
    [s \in MinBoardSize..MaxBoardSize |->
        CASE s = 6 -> <<3, 2, 2, 1>>
          [] s = 7 -> <<3, 3, 2, 2, 1>>
          [] s = 8 -> <<4, 3, 3, 2, 2>>
          [] s = 9 -> <<4, 4, 3, 3, 2, 1>>
          [] s = 10 -> <<5, 4, 3, 3, 2>>]

RECURSIVE SumSeq(_)
SumSeq(s) == IF s = <<>> THEN 0 ELSE Head(s) + SumSeq(Tail(s))

\* ------------------------------------------------------------ Game engine
\* Game.__post_init__: the size is clamped into 6..10
ClampSize(n) == Max(MinBoardSize, Min(MaxBoardSize, n))

\* Game.get_fleet_config
GetFleetConfig(size) ==
    IF size \in DOMAIN FLEET_CONFIGS THEN FLEET_CONFIGS[size] ELSE FLEET_CONFIGS[8]

\* the coords set built in place_fleet for one draw
ShipCoords(x, y, len, horizontal) ==
    IF horizontal THEN {<<x + i, y>> : i \in 0..(len - 1)}
                  ELSE {<<x, y + i>> : i \in 0..(len - 1)}

\* the candidates one iteration of the while loop can draw: x is drawn as 0
\* and y below ry
Candidates(size, len, ry) ==
    {ShipCoords(x, y, len, TRUE) : x \in {0}, y \in 0..(Min(size, ry) - 1)}
    \cup
    {ShipCoords(x, y, len, FALSE) : x \in {0}, y \in 0..(Min(size - len + 1, ry) - 1)}

OnBoard(c, size) == c[1] \in 0..(size - 1) /\ c[2] \in 0..(size - 1)

Neighbours(c) ==
    {<<c[1] + dx, c[2] + dy>> : dx \in {-1, 0, 1}, dy \in {-1, 0, 1}} \ {c}

\* mutant: checks overlap only, not adjacency
IsValidPlacementOverlapOnly(ships, coords) == coords \cap ships = {}

\* Game._is_valid_placement
IsValidPlacement(ships, coords) ==
    /\ coords \cap ships = {}
    /\ \A c \in coords : Neighbours(c) \cap ships = {}

\* One ship of place_fleet's for loop: the while loop ends by placing a valid
\* candidate, or, after max_attempts invalid draws in a row (possible as soon
\* as one candidate is invalid), by leaving the ship out.  A fleet is the
\* sequence of the coordinate sets of the ships placed so far.
PlaceShip(placed, size, len, ry) ==
    LET ships == UNION {placed[i] : i \in 1..Len(placed)}
        cands == Candidates(size, len, ry)
        valid == {c \in cands : IsValidPlacement(ships, c)}
    IN  {Append(placed, c) : c \in valid}
        \cup (IF valid # cands THEN {placed} ELSE {})

RECURSIVE PlaceFrom(_, _, _, _)
PlaceFrom(placedSet, size, fleet, ry) ==
    IF fleet = <<>> THEN placedSet
    ELSE PlaceFrom(UNION {PlaceShip(p, size, Head(fleet), ry) : p \in placedSet},
                   size, Tail(fleet), ry)

\* Game.place_fleet: every fleet (sequence of placed ships) it can end with
PlaceFleet(size, ry) == PlaceFrom({<<>>}, size, GetFleetConfig(size), ry)

ShipsOf(placed) == UNION {placed[i] : i \in 1..Len(placed)}

\* the fleets Game.new / Game.reset can produce, per size (computed once)
EngineFleets == [s \in MinBoardSize..MaxBoardSize |-> PlaceFleet(s, MaxRandY)]

\* dict.get(key) of a result dict: a missing key reads as falsy
Get(d, key) == IF key \in DOMAIN d THEN d[key] ELSE FALSE

\* a Game: size, ships, hits, misses as in the dataclass; placed is the
\* sequence of the ships place_fleet placed (ships is their union)
MkGame(size, placed) ==
    [size |-> size, ships |-> ShipsOf(placed), hits |-> {}, misses |-> {},
     placed |-> placed]

\* mutant: a repeat shot at a miss is recorded as a hit
FireRepeatMutates(g, shot) ==
    IF shot \in g.hits \/ shot \in g.misses
    THEN [game |-> [g EXCEPT !.hits = @ \cup {shot}], result |-> [repeat |-> TRUE]]
    ELSE IF shot \in g.ships
    THEN LET h == g.hits \cup {shot}
         IN  [game |-> [g EXCEPT !.hits = h],
              result |-> [hit |-> TRUE, won |-> g.ships \subseteq h]]
    ELSE [game |-> [g EXCEPT !.misses = @ \cup {shot}], result |-> [hit |-> FALSE]]

\* mutant: the repeat test looks at hits only
FireNoMissCheck(g, shot) ==
    IF shot \in g.hits
    THEN [game |-> g, result |-> [repeat |-> TRUE]]
    ELSE IF shot \in g.ships
    THEN LET h == g.hits \cup {shot}
         IN  [game |-> [g EXCEPT !.hits = h],
              result |-> [hit |-> TRUE, won |-> g.ships \subseteq h]]
    ELSE [game |-> [g EXCEPT !.hits = @ \cup {shot}], result |-> [hit |-> FALSE]]

\* mutant: won is reported as soon as any ship cell is hit
FireWonEarly(g, shot) ==
    IF shot \in g.hits \/ shot \in g.misses
    THEN [game |-> g, result |-> [repeat |-> TRUE]]
    ELSE IF shot \in g.ships
    THEN [game |-> [g EXCEPT !.hits = @ \cup {shot}],
          result |-> [hit |-> TRUE, won |-> TRUE]]
    ELSE [game |-> [g EXCEPT !.misses = @ \cup {shot}], result |-> [hit |-> FALSE]]

\* Game.fire: the game after the shot and the dict returned
Fire(g, shot) ==
    IF shot \in g.hits \/ shot \in g.misses
    THEN [game |-> g, result |-> [repeat |-> TRUE]]
    ELSE IF shot \in g.ships
    THEN LET h == g.hits \cup {shot}
         IN  [game |-> [g EXCEPT !.hits = h],
              result |-> [hit |-> TRUE, won |-> g.ships \subseteq h]]
    ELSE [game |-> [g EXCEPT !.misses = @ \cup {shot}], result |-> [hit |-> FALSE]]

NoResult == [none |-> TRUE]

\* ship_remaining / game-over test used by the routes: ships.issubset(hits)
AllHit(g) == g.ships \subseteq g.hits

\* ------------------------------------------- AiOpponent (used by /make-move)
\* random.choice(seq): one of the first MaxChoice elements of the list
Choices(seq) == {seq[i] : i \in 1..Min(Len(seq), MaxChoice)}

\* the cells of the board in the order of "for x in range(size) for y in
\* range(size)"
AllCells(size) == [i \in 1..(size * size) |-> <<(i - 1) \div size, (i - 1) % size>>]

SeqToSet(seq) == {seq[i] : i \in 1..Len(seq)}

\* AiOpponent.get_legal_moves
GetLegalMoves(g) ==
    SelectSeq(AllCells(g.size), LAMBDA c : c \notin (g.hits \cup g.misses))

\* AiOpponent._novice_move (the moves it can return; {} stands for None)
NoviceMove(g) ==
    LET moves == GetLegalMoves(g)
        edge == SelectSeq(moves, LAMBDA m : m[1] \in {0, g.size - 1} \/ m[2] \in {0, g.size - 1})
        pool == IF edge # <<>> THEN edge ELSE moves
    IN  IF moves = <<>> THEN {} ELSE Choices(pool)

HuntDirections == <<(<<1, 0>>), (<<-1, 0>>), (<<0, 1>>), (<<0, -1>>)>>

\* the first neighbour of hit h, in the order of the direction list, that is
\* a legal move; <<>> when there is none
FirstLegalNeighbour(h, moveSet) ==
    LET idx == {i \in 1..4 : <<h[1] + HuntDirections[i][1], h[2] + HuntDirections[i][2]>> \in moveSet}
    IN  IF idx = {} THEN <<>>
        ELSE LET i == CHOOSE k \in idx : \A j \in idx : k <= j
             IN  <<h[1] + HuntDirections[i][1], h[2] + HuntDirections[i][2]>>

\* AiOpponent._intermediate_move; the hits are visited in the iteration order
\* of a Python set, which the model leaves open
IntermediateMove(g) ==
    LET moves == GetLegalMoves(g)
        moveSet == SeqToSet(moves)
        hunted == {FirstLegalNeighbour(h, moveSet) : h \in g.hits} \ {<<>>}
        parity == SelectSeq(moves, LAMBDA m : (m[1] + m[2]) % 2 = 0)
    IN  IF moves = <<>> THEN {}
        ELSE IF hunted # {} THEN hunted
        ELSE IF parity # <<>> THEN Choices(parity)
        ELSE Choices(moves)

MinOfSeq(seq) == CHOOSE v \in SeqToSet(seq) : \A w \in SeqToSet(seq) : v <= w

\* list.remove(v): the list without the first occurrence of v
RemoveFirst(seq, v) ==
    LET i == CHOOSE k \in 1..Len(seq) : seq[k] = v /\ \A j \in 1..(k - 1) : seq[j] # v
    IN  SubSeq(seq, 1, i - 1) \o SubSeq(seq, i + 1, Len(seq))

RECURSIVE RemainingLoop(_, _)
RemainingLoop(remaining, sunk_hits) ==
    IF sunk_hits > 0 /\ remaining # <<>>
    THEN RemainingLoop(RemoveFirst(remaining, MinOfSeq(remaining)),
                       sunk_hits - MinOfSeq(remaining))
    ELSE remaining

\* AiOpponent._remaining_ship_sizes
RemainingShipSizes(g) ==
    LET remaining == RemainingLoop(GetFleetConfig(g.size), Cardinality(g.hits))
    IN  IF remaining = <<>> THEN <<2>> ELSE remaining

\* AiOpponent._placement_conflicts: only a miss inside coords conflicts
PlacementConflicts(g, coords) == coords \cap g.misses # {}

\* the number of placements of one ship of length len that _expert_move
\* counts for cell c (those that contain c and no miss): horizontal ones,
\* then vertical ones
PlacementsThrough(g, len, c) ==
    Cardinality({x \in Max(0, c[1] - len + 1)..Min(c[1], g.size - len) :
        ~PlacementConflicts(g, ShipCoords(x, c[2], len, TRUE))})
    + Cardinality({y \in Max(0, c[2] - len + 1)..Min(c[2], g.size - len) :
        ~PlacementConflicts(g, ShipCoords(c[1], y, len, FALSE))})

RECURSIVE SumScores(_, _, _)
SumScores(g, sizes, c) ==
    IF sizes = <<>> THEN 0
    ELSE PlacementsThrough(g, Head(sizes), c) + SumScores(g, Tail(sizes), c)

\* AiOpponent._expert_move
ExpertMove(g) ==
    LET moves == GetLegalMoves(g)
        moveSet == SeqToSet(moves)
        sizes == RemainingShipSizes(g)
        scores == {<<c, SumScores(g, sizes, c)>> : c \in moveSet}
        max_score == CHOOSE v \in {s[2] : s \in scores} : \A s \in scores : s[2] <= v
        candidates == SelectSeq(moves, LAMBDA c : <<c, max_score>> \in scores)
    IN  IF moves = <<>> THEN {} ELSE Choices(candidates)

\* AiOpponent._fallback
Fallback(g) ==
    LET moves == GetLegalMoves(g) IN IF moves # <<>> THEN moves[1] ELSE <<0, 0>>

\* mutant: every difficulty answers with the emergency move (0, 0)
GetBestMoveEmergency(g, difficulty) == {<<0, 0>>}

\* AiOpponent.get_best_move: the moves it can return
GetBestMove(g, difficulty) ==
    LET move == IF difficulty = "intermediate" THEN IntermediateMove(g)
                ELSE IF difficulty = "expert" THEN ExpertMove(g)
                ELSE NoviceMove(g)
    IN  IF move = {} THEN {Fallback(g)} ELSE move

\* ------------------------------------------- strategies.py: BattleshipAI
\* An opponent is its class (kind), the size of the board it was built with
\* and its three lists.  AdmiralAI.probability_map is rebuilt from
\* previous_moves and hits at the start of every make_move, so it is
\* computed (Probability) instead of stored.
CHECKERBOARD_OFFSET == 2

\* BattleshipAI.__init__
NewOpponent(kind, size) ==
    [kind |-> kind, size |-> size,
     previous_moves |-> <<>>, hits |-> <<>>, hunt_targets |-> <<>>]

\* the directions _add_adjacent_targets and _update_probabilities walk
TargetDirections == <<(<<0, 1>>), (<<0, -1>>), (<<1, 0>>), (<<-1, 0>>)>>

\* BattleshipAI._add_adjacent_targets: the loop from direction i on
RECURSIVE AddAdjacentFrom(_, _, _, _)
AddAdjacentFrom(ai, x, y, i) ==
    IF i > Len(TargetDirections) THEN ai
    ELSE LET n == <<x + TargetDirections[i][1], y + TargetDirections[i][2]>>
             queued == /\ 0 <= n[1] /\ n[1] < ai.size
                       /\ 0 <= n[2] /\ n[2] < ai.size
                       /\ n \notin SeqToSet(ai.previous_moves)
                       /\ n \notin SeqToSet(ai.hunt_targets)
         IN  AddAdjacentFrom(
                 IF queued THEN [ai EXCEPT !.hunt_targets = Append(@, n)] ELSE ai,
                 x, y, i + 1)

AddAdjacentTargets(ai, x, y) == AddAdjacentFrom(ai, x, y, 1)

\* BattleshipAI.update_game_state
UpdateGameState(ai, x, y, hit) ==
    LET moved == [ai EXCEPT !.previous_moves = Append(@, <<x, y>>)]
    IN  IF hit
        THEN AddAdjacentTargets([moved EXCEPT !.hits = Append(@, <<x, y>>)], x, y)
        ELSE moved

\* [(x, y) for x in range(size) for y in range(size) if (x, y) not in previous_moves]
Available(ai) ==
    SelectSeq(AllCells(ai.size), LAMBDA c : c \notin SeqToSet(ai.previous_moves))

\* what make_move gives: the opponent afterwards and the AIMove's cell, or
\* an exception that leaves the opponent as it was
Move(ai, c) == [ai |-> ai, move |-> c, raised |-> FALSE]
Raised(ai) == [ai |-> ai, move |-> <<>>, raised |-> TRUE]

\* target = self.hunt_targets.pop(0)
PopHuntTarget(ai) == Move([ai EXCEPT !.hunt_targets = Tail(@)], Head(ai.hunt_targets))

\* random.choice(cells), or the fixed (0, 0) move when no cell is left
RandomMove(ai, cells) ==
    IF cells = <<>> THEN {Move(ai, <<0, 0>>)} ELSE {Move(ai, c) : c \in Choices(cells)}

\* RookieAI.make_move: with hunt targets queued, random.random() decides
\* between the hunt and the random guess
RookieMakeMove(ai) ==
    (IF ai.hunt_targets # <<>> THEN {PopHuntTarget(ai)} ELSE {})
        \cup RandomMove(ai, Available(ai))

\* VeteranAI.make_move
VeteranMakeMove(ai) ==
    IF ai.hunt_targets # <<>> THEN {PopHuntTarget(ai)}
    ELSE LET available == Available(ai)
             checkerboard ==
                 SelectSeq(available, LAMBDA c : (c[1] + c[2]) % CHECKERBOARD_OFFSET = 0)
         IN  IF checkerboard # <<>> THEN RandomMove(ai, checkerboard)
             ELSE RandomMove(ai, available)

\* 2 ** n
RECURSIVE Pow2(_)
Pow2(n) == IF n = 0 THEN 1 ELSE 2 * Pow2(n - 1)

\* AdmiralAI._update_probabilities: probability_map[c[2]][c[1]] afterwards,
\* 0.0 for a played cell, else 1.0 doubled once per (hit, direction) next to it
Probability(ai, c) ==
    IF c \in SeqToSet(ai.previous_moves) THEN 0
    ELSE Pow2(Cardinality({<<i, d>> \in (1..Len(ai.hits)) \X (1..Len(TargetDirections)) :
                 <<ai.hits[i][1] + TargetDirections[d][1],
                   ai.hits[i][2] + TargetDirections[d][2]>> = c}))

\* list.sort(key = probability, reverse = True): stable, so targets of equal
\* probability keep their order
RECURSIVE SortByProbability(_, _)
SortByProbability(ai, targets) ==
    IF targets = <<>> THEN <<>>
    ELSE LET rest == SortByProbability(ai, SubSeq(targets, 1, Len(targets) - 1))
             e == targets[Len(targets)]
             before == SelectSeq(rest, LAMBDA t : Probability(ai, t) >= Probability(ai, e))
             after == SelectSeq(rest, LAMBDA t : Probability(ai, t) < Probability(ai, e))
         IN  before \o <<e>> \o after

\* for y in range(size): for x in range(size)
AllCellsByRow(size) ==
    [i \in 1..(size * size) |-> <<(i - 1) % size, (i - 1) \div size>>]

\* AdmiralAI.make_move
AdmiralMakeMove(ai) ==
    IF ai.hunt_targets # <<>>
    THEN {PopHuntTarget([ai EXCEPT !.hunt_targets = SortByProbability(ai, @)])}
    ELSE LET open == SelectSeq(AllCellsByRow(ai.size),
                               LAMBDA c : c \notin SeqToSet(ai.previous_moves))
             probs == {<<c, Probability(ai, c)>> : c \in SeqToSet(open)}
             max_prob == CHOOSE v \in {q[2] : q \in probs} : \A q \in probs : q[2] <= v
             best_targets == SelectSeq(open, LAMBDA c : <<c, max_prob>> \in probs)
         IN  IF open = <<>> THEN {Move(ai, <<0, 0>>)} ELSE RandomMove(ai, best_targets)

\* LLMAIOpponent._fallback_move
FallbackMove(ai) ==
    IF ai.hunt_targets # <<>> THEN {PopHuntTarget(ai)} ELSE RandomMove(ai, Available(ai))

\* the coordinates a completion can name: x in -1..MaxShotX, y = 0
CompletionInputs == {<<x, 0>> : x \in -1..MaxShotX}

\* LLMAIOpponent._parse_llm_response on a completion naming cell c
ParseLlmResponse(ai, c) ==
    IF ~(0 <= c[1] /\ c[1] < ai.size /\ 0 <= c[2] /\ c[2] < ai.size) THEN FallbackMove(ai)
    ELSE IF c \in SeqToSet(ai.previous_moves) THEN FallbackMove(ai)
    ELSE {Move(ai, c)}

\* LLMAIOpponent.make_move: the request fails or the body is not the JSON
\* expected (nothing catches it in _make_move_async); the completion does not
\* parse (KeyError, ValueError, IndexError are caught); the completion names
\* a cell
LlmMakeMove(ai) ==
    {Raised(ai)}
        \cup FallbackMove(ai)
        \cup UNION {ParseLlmResponse(ai, c) : c \in CompletionInputs}

\* ai_opponent.make_move()
AiMakeMove(ai) ==
    CASE ai.kind = "rookie" -> RookieMakeMove(ai)
      [] ai.kind = "veteran" -> VeteranMakeMove(ai)
      [] ai.kind = "admiral" -> AdmiralMakeMove(ai)
      [] ai.kind = "llm" -> LlmMakeMove(ai)

\* create_ai(tier, game): RookieAI for a tier it does not know
CreateAi(tier, size) ==
    NewOpponent(IF tier \in {"rookie", "veteran", "admiral"} THEN tier ELSE "rookie", size)

\* ------------------------------------------------------ statistics, score
\* mutant: the accuracy is cut off after the first decimal
Accuracy10Truncated(hits, shots_fired) ==
    IF shots_fired > 0 THEN (1000 * hits) \div shots_fired ELSE 0

\* round(hits / shots_fired * 100, 1), in tenths of a percent (ties to even)
Accuracy10(hits, shots_fired) ==
    IF shots_fired > 0
    THEN LET q == (1000 * hits) \div shots_fired
             r == (1000 * hits) % shots_fired
         IN  IF 2 * r > shots_fired THEN q + 1
             ELSE IF 2 * r < shots_fired THEN q
             ELSE IF q % 2 = 0 THEN q ELSE q + 1
    ELSE 0

\* round(ships_remaining / total_ship_cells * 100, 1) in tenths of a percent,
\* 0.0 when total_ship_cells is 0
PercentShipsRemaining10(ships_remaining, total_ship_cells) ==
    IF total_ship_cells > 0
    THEN LET q == (1000 * ships_remaining) \div total_ship_cells
             r == (1000 * ships_remaining) % total_ship_cells
         IN  IF 2 * r > total_ship_cells THEN q + 1
             ELSE IF 2 * r < total_ship_cells THEN q
             ELSE IF q % 2 = 0 THEN q ELSE q + 1
    ELSE 0

\* Game.get_stats (the fields the routes and the score use)
GetStats(g) ==
    LET shots_fired == Cardinality(g.hits) + Cardinality(g.misses)
    IN  [shots_fired |-> shots_fired,
         hits |-> Cardinality(g.hits),
         accuracy10 |-> Accuracy10(Cardinality(g.hits), shots_fired),
         ships_remaining |-> Cardinality(g.ships) - Cardinality(g.hits),
         total_ship_cells |-> Cardinality(g.ships),
         percent_ships_remaining10 |->
             PercentShipsRemaining10(Cardinality(g.ships) - Cardinality(g.hits),
                                     Cardinality(g.ships)),
         game_over |-> g.ships \subseteq g.hits,
         board_size |-> g.size]

BaseScore == 1000

\* save_game_score: the Score row created for user_id from the statistics;
\* int(accuracy * 2) cuts the fraction off
SaveGameScore(user_id, stats) ==
    LET shot_penalty == stats.shots_fired * 10
        accuracy_bonus == (2 * stats.accuracy10) \div 10
        size_bonus == stats.board_size * 5
    IN  [user_id |-> user_id,
         score |-> Max(0, BaseScore - shot_penalty + accuracy_bonus + size_bonus),
         shots_fired |-> stats.shots_fired,
         accuracy10 |-> stats.accuracy10,
         board_size |-> stats.board_size,
         difficulty |-> "standard"]

\* save_user_score: the scores table after the call
SaveUserScore(rows, user, g) ==
    IF ~GetStats(g).game_over THEN rows
    ELSE Append(rows, SaveGameScore(user, GetStats(g)))

\* ------------------------------------------------ game routes: sessions
STANDARD_BOARD_SIZE == DEFAULT_BOARD_SIZE
MaxLog == 5

NoUser == "anonymous"
NoSession == [none |-> TRUE]
GameTiers == {"rookie", "veteran", "admiral"}

\* AITier(ai_tier), ROOKIE when the value is no tier
ParseTier(ai_tier) == IF ai_tier \in GameTiers THEN ai_tier ELSE "rookie"

\* AI_DIFFICULTY_MAP
AiDifficulty(tier) ==
    CASE tier = "rookie" -> "novice"
      [] tier = "veteran" -> "intermediate"
      [] tier = "admiral" -> "expert"
      [] OTHER -> "novice"

\* mutant: the key leaves the tier out
SessionKeyIgnoresTier(user, tier) == <<IF user = NoUser THEN "guest" ELSE user, "rookie">>

\* _session_key
SessionKey(user, tier) == <<IF user = NoUser THEN "guest" ELSE user, tier>>

\* the fleets Game.new can place in the route specifications
RouteFleets == [s \in MinBoardSize..MaxBoardSize |-> PlaceFleet(s, MaxRouteRandY)]

\* _new_session: the sessions it can return
NewSessions ==
    {[player_target |-> MkGame(STANDARD_BOARD_SIZE, p),
      ai_target |-> MkGame(STANDARD_BOARD_SIZE, q),
      log |-> <<>>] :
        p \in RouteFleets[STANDARD_BOARD_SIZE], q \in RouteFleets[STANDARD_BOARD_SIZE]}

\* mutant: the oldest entry is dropped one entry late
AppendLogKeepsSix(log, message) ==
    LET l == Append(log, message) IN IF Len(l) > MaxLog + 1 THEN Tail(l) ELSE l

\* SessionState.append_log
AppendLog(log, message) ==
    LET l == Append(log, message) IN IF Len(l) > MaxLog THEN Tail(l) ELSE l

\* SessionState.player_won, SessionState.ai_won
PlayerWon(sess) == sess.player_target.ships \subseteq sess.player_target.hits
AiWon(sess) == sess.ai_target.ships \subseteq sess.ai_target.hits

VARIABLES
    game,       \* the Game of the engine specifications
    result,     \* the dict the last Game.fire returned (NoResult before any)
    shot,       \* the coordinates of the last Game.fire call
    wins,       \* fire calls that returned won = true since new / reset
    placing,    \* place_fleet's locals while it runs: the ship it is at and its attempts
    user_games, \* game_routes.py's _user_games: key -> Game (or NoGame)
    guest_game, \* game_routes.py's _guest_game (NoGame for None)
    clients,    \* the (user, tier) pairs that send requests in this behaviour
    sessions,   \* game routes' _SESSIONS: key -> SessionState (or NoSession)
    scores,     \* the scores table, in insertion order
    req,        \* what the last request handled did
    ai_sessions,\* AI lobby's _SESSIONS: (user id, tier) -> session dict (or NoSession)
    api_key,    \* whether OPENAI_API_KEY is configured
    in_flight,  \* the requests worker threads are handling: where each is in
                \* its handler, with its form fields and what it has read
    now,        \* the clock, datetime.now(UTC).timestamp() in whole seconds
    rate_limit_store, \* user.py's _rate_limit_store: key -> list of timestamps
    rate_cfg,   \* whether rate limiting is enabled, and the limiter's limit and window
    rate_ret,   \* the last check_rate_limit call: its key, its time and what it returned
    rate_history, \* per key, the times of the allowed calls and of the last denied call (-1: none) under rate limiting
    users,      \* the users table: email -> is_active, password_hash, last_login
    user_sessions, \* the user_sessions table, in insertion order
    login_ret,  \* the last POST /auth/login: its form fields and its response
    auth_ret,   \* the last other auth request or auth service call: its inputs and its answer
    tokens_issued \* how many session tokens secrets.token_urlsafe has produced

storedGames == <<user_games, guest_game>>
engineVars == <<game, result, shot, wins, placing, user_games, guest_game>>
routeVars == <<clients, sessions, scores, req>>
lobbyVars == <<ai_sessions, api_key, in_flight>>
rateVars == <<rate_limit_store, rate_cfg, rate_ret, rate_history>>
loginVars == <<users, user_sessions, login_ret, auth_ret, tokens_issued>>
authVars == <<now, rateVars, loginVars>>
vars == <<game, result, shot, wins, placing, user_games, guest_game, clients, sessions, scores, req, ai_sessions, api_key,
          in_flight,
          now, rate_limit_store, rate_cfg, rate_ret, rate_history,
          users, user_sessions, login_ret, auth_ret, tokens_issued>>

Users == {"u1"}
Callers == {NoUser} \cup Users
TierInputs == GameTiers \cup {"bogus"}
SessionKeys == {SessionKey(u, t) : u \in Callers, t \in GameTiers}
NoReq == [op |-> "none"]

\* ai.py: _TIERS, the psy-ops tier and tier.strip().lower() on the tier
\* strings the clients send
LobbyTiers == {"rookie", "veteran", "admiral"}
PsyOps == "psy-ops"
\* mutant: every tier gets the standard board
TierBoardSizeStandard(tier_norm) == DEFAULT_BOARD_SIZE

TierBoardSize(tier_norm) ==
    CASE tier_norm = "rookie" -> 6
      [] tier_norm = "veteran" -> 8
      [] tier_norm = "admiral" -> 10
      [] tier_norm = PsyOps -> 8
LobbyTierInputs == LobbyTiers \cup {PsyOps, " Rookie", "bogus"}
TierNorm(tier) == IF tier = " Rookie" THEN "rookie" ELSE tier
\* mutant: the key leaves the user out
KeyIgnoresUser(user_id, tier) == <<"u1", tier>>

\* _key
Key(user_id, tier) == <<user_id, tier>>

\* the signed-in users of the specifications with two clients
LobbyUsers == Users \cup {"u2"}
LobbyKeys == {<<u, TierNorm(t)>> : u \in LobbyUsers, t \in LobbyTierInputs}

LobbyIdle ==
    /\ ai_sessions = [k \in LobbyKeys |-> NoSession]
    /\ api_key = FALSE
    /\ in_flight = <<>>

RoutesIdle ==
    /\ clients = {}
    /\ sessions = [k \in SessionKeys |-> NoSession]
    /\ scores = <<>>
    /\ req = NoReq

\* ------------------------------------------------ rate limiting (user.py)
\* the actions the auth routes limit and the request.client.host of the
\* one client address that calls
RateActions == {"login", "register"}
ClientIps == {"10.0.0.1"}

\* key = f"{action}:{client_ip}"
RateKey(action, client_ip) == <<action, client_ip>>
RateKeys == {RateKey(a, ip) : a \in RateActions, ip \in ClientIps}

\* [t for t in bucket if now - t < window]
RECURSIVE Younger(_, _, _)
Younger(bucket, at, window) ==
    IF bucket = <<>> THEN <<>>
    ELSE IF at - Head(bucket) < window
         THEN <<Head(bucket)>> \o Younger(Tail(bucket), at, window)
         ELSE Younger(Tail(bucket), at, window)

\* mutant: a timestamp exactly one window old still counts
RECURSIVE YoungerOrEqual(_, _, _)
YoungerOrEqual(bucket, at, window) ==
    IF bucket = <<>> THEN <<>>
    ELSE IF at - Head(bucket) <= window
         THEN <<Head(bucket)>> \o YoungerOrEqual(Tail(bucket), at, window)
         ELSE YoungerOrEqual(Tail(bucket), at, window)

\* mutant of AuthService.check_rate_limit: the window filter is inclusive
CheckRateLimitInclusive(store, enabled, key, at, limit, window) ==
    IF ~enabled THEN [allowed |-> TRUE, store |-> store]
    ELSE LET kept == YoungerOrEqual(store[key], at, window) IN
         IF Len(kept) >= limit
         THEN [allowed |-> FALSE, store |-> [store EXCEPT ![key] = kept]]
         ELSE [allowed |-> TRUE, store |-> [store EXCEPT ![key] = Append(kept, at)]]

\* AuthService.check_rate_limit: TESTING or DISABLE_RATE_LIMIT = "1" allows
\* every call and touches nothing; otherwise the bucket of the key is pruned
\* to the timestamps younger than the window, a full bucket denies and a
\* bucket with room records the time of the call
CheckRateLimit(store, enabled, key, at, limit, window) ==
    IF ~enabled THEN [allowed |-> TRUE, store |-> store]
    ELSE LET kept == Younger(store[key], at, window) IN
         IF Len(kept) >= limit
         THEN [allowed |-> FALSE, store |-> [store EXCEPT ![key] = kept]]
         ELSE [allowed |-> TRUE, store |-> [store EXCEPT ![key] = Append(kept, at)]]

NoRateRet == [key |-> <<>>, at |-> 0, allowed |-> TRUE]
NoRateHistory == [k \in RateKeys |-> [allowed |-> <<>>, denied |-> -1]]

\* the record of a call in the history of its key; calls made while rate
\* limiting is disabled are not counted
Recorded(history, enabled, key, at, allowed) ==
    IF ~enabled THEN history
    ELSE [history EXCEPT ![key] =
            IF allowed THEN [@ EXCEPT !.allowed = Append(@, at)]
            ELSE [@ EXCEPT !.denied = at]]

\* ------------------------------------------------ local login (auth/service.py)
\* the email strings a client submits: a stored address as it is, with an
\* upper-case letter and with a leading blank, the addresses of an inactive
\* account and of an account without a password, an address nobody
\* registered, and a string that is no address
EmailInputs == {"alice@x.io", "Alice@x.io", " alice@x.io", "idle@x.io",
                "oauth@x.io", "nobody@x.io", "not-an-email"}
\* an address with a "+" in its local part
PlusAddress == "alice+t@x.io"
PasswordInputs == {"right", "wrong"}

\* str.strip and str.lower on these strings
Strip(e) == IF e = " alice@x.io" THEN "alice@x.io" ELSE e
Lower(e) == IF e = "Alice@x.io" THEN "alice@x.io" ELSE e

\* what the address pattern (or email_validator) accepts
WellFormed(e) == e \in {"alice@x.io", "idle@x.io", "oauth@x.io", "nobody@x.io", PlusAddress}

\* validate_email: strip, lower, then the syntax check; ok = FALSE is the
\* HTTPException
ValidateEmail(email_str) ==
    LET e == Lower(Strip(email_str)) IN [ok |-> WellFormed(e), email |-> e]

\* hash_password / verify_password
NoHash == <<>>
HashPassword(plaintext) == <<"argon2", plaintext>>
VerifyPassword(plaintext, password_hash) == password_hash = HashPassword(plaintext)

\* the accounts of the users table: one active local account, one inactive
\* local account and one active account created by a delegated sign-in
NoLogin == -1
\* create_user: email.split("@")[0], and only the part before a "+"
LocalPart(email) ==
    CASE email \in {"alice@x.io", PlusAddress} -> "alice"
      [] email = "idle@x.io" -> "idle"
      [] email = "oauth@x.io" -> "oauth"
      [] email = "nobody@x.io" -> "nobody"

\* a username is its base and the suffix appended to it (0: none)
Accounts ==
    [e \in {"alice@x.io", "idle@x.io", "oauth@x.io"} |->
        [username |-> <<LocalPart(e), 0>>,
         is_active |-> e # "idle@x.io",
         password_hash |-> IF e = "oauth@x.io" THEN NoHash ELSE HashPassword("right"),
         last_login |-> NoLogin]]

\* AuthService.get_user_by_email: User.email == email.lower()
GetUserByEmail(table, email) ==
    IF Lower(email) \in DOMAIN table THEN {Lower(email)} ELSE {}

\* the responses of POST /auth/login
InvalidCredentials ==
    [status |-> 200, body |-> "_auth_result.html", ok |-> FALSE,
     message |-> "Invalid email or password.", cookies |-> {}]
TooManyAttempts ==
    [status |-> 200, body |-> "_auth_result.html", ok |-> FALSE,
     message |-> "Too many login attempts. Please try again later.", cookies |-> {}]
InvalidLoginState ==
    [status |-> 400, body |-> "detail", ok |-> FALSE,
     message |-> "Invalid login state", cookies |-> {}]
SessionCookies == {"session_token", "access_token"}
Welcome(is_hx) ==
    IF is_hx
    THEN [status |-> 200, body |-> "_auth_result.html", ok |-> TRUE,
          message |-> "Welcome back", cookies |-> SessionCookies]
    ELSE [status |-> 303, body |-> "redirect /game", ok |-> TRUE,
          message |-> "", cookies |-> SessionCookies]

\* mutant: an unknown address gets a message of its own
ValidateLoginCredentialsLeaky(table, email, password) ==
    LET v == ValidateEmail(email)
        found == GetUserByEmail(table, v.email)
    IN  IF ~v.ok THEN {InvalidCredentials}
        ELSE IF found = {}
        THEN {[InvalidCredentials EXCEPT !.message = "No account with this email."]}
        ELSE LET user == table[CHOOSE u \in found : TRUE] IN
             IF ~user.is_active \/ user.password_hash = NoHash THEN {InvalidCredentials}
             ELSE IF ~VerifyPassword(password, user.password_hash) THEN {InvalidCredentials}
             ELSE {}

\* validate_login_credentials: the error response, if any (the empty set is
\* the return of None with auth_req.user set)
ValidateLoginCredentials(table, email, password) ==
    LET v == ValidateEmail(email)
        found == GetUserByEmail(table, v.email)
    IN  IF ~v.ok THEN {InvalidCredentials}
        ELSE IF found = {} THEN {InvalidCredentials}
        ELSE LET user == table[CHOOSE u \in found : TRUE] IN
             IF ~user.is_active \/ user.password_hash = NoHash THEN {InvalidCredentials}
             ELSE IF ~VerifyPassword(password, user.password_hash) THEN {InvalidCredentials}
             ELSE {}

\* create_session_cookies: timedelta(days=30) if remember else timedelta(hours=24)
SessionExpiry(remember) == IF remember THEN 30 * 24 * 3600 ELSE 24 * 3600

\* ------------------------------------------------ registration (auth/service.py)
\* the passwords a client submits to /auth/register with, for each, its
\* length and whether it has an upper-case letter, a lower-case letter and
\* a digit
RegisterPasswordInputs == {"Str0ngPass", "weakpass", "Sh0rt"}
PasswordShape(password) ==
    CASE password = "Str0ngPass" -> [len |-> 10, upper |-> TRUE, lower |-> TRUE, digit |-> TRUE]
      [] password = "weakpass" -> [len |-> 8, upper |-> FALSE, lower |-> TRUE, digit |-> FALSE]
      [] password = "Sh0rt" -> [len |-> 5, upper |-> TRUE, lower |-> TRUE, digit |-> TRUE]

MIN_PASSWORD_LENGTH == 8
MAX_PASSWORD_LENGTH == 128

\* validate_password_strength: the list of errors (empty: strong)
ValidatePasswordStrength(password) ==
    LET p == PasswordShape(password) IN
    (IF p.len < MIN_PASSWORD_LENGTH THEN <<"at least 8 characters">> ELSE <<>>)
    \o (IF p.len > MAX_PASSWORD_LENGTH THEN <<"no more than 128 characters">> ELSE <<>>)
    \o (IF ~p.upper THEN <<"at least one uppercase letter">> ELSE <<>>)
    \o (IF ~p.lower THEN <<"at least one lowercase letter">> ELSE <<>>)
    \o (IF ~p.digit THEN <<"at least one digit">> ELSE <<>>)

\* AuthService.get_user_by_username
GetUserByUsername(table, username) ==
    {e \in DOMAIN table : table[e].username = username}

\* AuthService.create_user(email, password_hash): the username is the local
\* part of the address with the first unused suffix; the row is stored with
\* email.lower(), active
CreateUser(table, email, password_hash) ==
    LET base == LocalPart(email)
        i == CHOOSE n \in 0..Cardinality(DOMAIN table) :
                /\ GetUserByUsername(table, <<base, n>>) = {}
                /\ \A m \in 0..(n - 1) : GetUserByUsername(table, <<base, m>>) # {}
    IN  [e \in DOMAIN table \cup {Lower(email)} |->
            IF e = Lower(email)
            THEN [username |-> <<base, i>>, is_active |-> TRUE,
                  password_hash |-> password_hash, last_login |-> NoLogin]
            ELSE table[e]]

\* the responses of POST /auth/register
AuthResult(ok, message) ==
    [status |-> 200, body |-> "_auth_result.html", ok |-> ok,
     message |-> message, cookies |-> {}]

\* validate_registration_data: the error response, if any (the empty set is
\* the return of None), and the users table it leaves
ValidateRegistrationData(table, email, password, confirm_password) ==
    LET v == ValidateEmail(email)
        password_errors == ValidatePasswordStrength(password)
    IN  IF ~v.ok
        THEN [error |-> {AuthResult(FALSE, "Invalid email format.")}, table |-> table]
        ELSE IF password # confirm_password
        THEN [error |-> {AuthResult(FALSE, "Passwords do not match.")}, table |-> table]
        ELSE IF password_errors # <<>>
        THEN [error |-> {AuthResult(FALSE, password_errors)}, table |-> table]
        ELSE IF GetUserByEmail(table, v.email) # {}
        THEN [error |-> {AuthResult(FALSE, "An account with this email already exists.")},
              table |-> table]
        ELSE [error |-> {},
              table |-> CreateUser(table, v.email, HashPassword(password))]

\* ------------------------------------------------ login sessions (user.py)
\* a session token is the number of the secrets.token_urlsafe(32) call that
\* produced it: every call gives a token no earlier call gave

\* AuthService.create_session: the row is appended; created_at and
\* last_activity are the time of the insert
CreateSession(table, user_id, session_token, expires_at, ip_address, at) ==
    Append(table, [user_id |-> user_id, session_token |-> session_token,
                   expires_at |-> expires_at, ip_address |-> ip_address,
                   last_activity |-> at])

\* mutant: a session that expires at this very moment is still returned
GetSessionByTokenInclusive(table, token, at) ==
    LET rows == {i \in 1..Len(table) :
                    table[i].session_token = token /\ table[i].expires_at >= at}
    IN  IF rows = {} THEN {} ELSE {CHOOSE i \in rows : \A j \in rows : i <= j}

\* AuthService.get_session_by_token: the first row with the token whose
\* expires_at is later than now (its index; the empty set is None)
GetSessionByToken(table, token, at) ==
    LET rows == {i \in 1..Len(table) :
                    table[i].session_token = token /\ table[i].expires_at > at}
    IN  IF rows = {} THEN {} ELSE {CHOOSE i \in rows : \A j \in rows : i <= j}

\* a table without its i-th row
DeleteRow(table, i) ==
    [j \in 1..(Len(table) - 1) |-> IF j < i THEN table[j] ELSE table[j + 1]]

\* AuthService.revoke_session: the first row with the token, expired or not,
\* is deleted; returns whether there was one
RevokeSession(table, token) ==
    LET rows == {i \in 1..Len(table) : table[i].session_token = token}
    IN  IF rows = {} THEN [revoked |-> FALSE, table |-> table]
        ELSE [revoked |-> TRUE,
              table |-> DeleteRow(table, CHOOSE i \in rows : \A j \in rows : i <= j)]

\* AuthService.get_user_by_id
GetUserById(table, user_id) == IF user_id \in DOMAIN table THEN {user_id} ELSE {}

\* the Authorization header: none, or a bearer token for a user that
\* verify_token accepts or rejects (signature, expiry, token type)
NoBearer == [user_id |-> "", valid |-> FALSE]

\* the session_token cookie of a request without one
NoCookie == -2

\* get_current_user: the user a valid bearer token names, if active;
\* otherwise the user of the unexpired session the session_token cookie
\* names, if active, and then the session's last_activity is set to now.
\* Gives the user (the empty set is None) and the sessions table it leaves
GetCurrentUser(table, rows, credentials, session_token, at) ==
    LET by_token == IF credentials.valid THEN GetUserById(table, credentials.user_id) ELSE {}
        found == IF session_token = NoCookie THEN {}
                 ELSE GetSessionByToken(rows, session_token, at)
        by_cookie == UNION {GetUserById(table, rows[i].user_id) : i \in found}
    IN  IF \E u \in by_token : table[u].is_active
        THEN [user |-> by_token, rows |-> rows]
        ELSE IF \E u \in by_cookie : table[u].is_active
        THEN [user |-> by_cookie,
              rows |-> [i \in 1..Len(rows) |->
                           IF i \in found THEN [rows[i] EXCEPT !.last_activity = at]
                           ELSE rows[i]]]
        ELSE [user |-> {}, rows |-> rows]

NoLoginRet == [email |-> "", password |-> "", response |-> <<>>]
NoAuthRet == [op |-> "none"]

AuthIdle ==
    /\ now = 0
    /\ rate_limit_store = [k \in RateKeys |-> <<>>]
    /\ rate_cfg = [enabled |-> FALSE, limit |-> 1, window |-> 1]
    /\ rate_ret = NoRateRet
    /\ rate_history = NoRateHistory
    /\ users = Accounts
    /\ user_sessions = <<>>
    /\ login_ret = NoLoginRet
    /\ auth_ret = NoAuthRet
    /\ tokens_issued = 0

\* ------------------------------------------------ engine specifications
SizeInputs == (MinBoardSize - 1)..(MaxBoardSize + 1)
ShotInputs == {<<x, 0>> : x \in -1..MaxShotX}

\* place_fleet is not running
NoPlacing == [i |-> 0, attempts |-> 0]

\* game_routes.py: game_key = f"{user_id}_{size}_{ai_tier}"; no game stored
GameKey(user_id, size, ai_tier) == <<user_id, size, ai_tier>>
GameKeys == {GameKey(u, s, t) : u \in Users, s \in MinBoardSize..MaxBoardSize, t \in GameTiers}
NoGame == [none |-> TRUE]
NoUserGames == [k \in GameKeys |-> NoGame]

\* Game.new(size)
EngineInit ==
    /\ \E n \in SizeInputs : \E p \in EngineFleets[ClampSize(n)] :
           game = MkGame(ClampSize(n), p)
    /\ result = NoResult
    /\ shot = <<>>
    /\ wins = 0
    /\ placing = NoPlacing
    /\ user_games = NoUserGames
    /\ guest_game = NoGame
    /\ RoutesIdle
    /\ LobbyIdle
    /\ AuthIdle

\* game.fire(x, y)
FireShot ==
    \E xy \in ShotInputs :
        LET r == Fire(game, xy) IN
        /\ game' = r.game
        /\ result' = r.result
        /\ shot' = xy
        /\ wins' = IF Get(r.result, "won") THEN wins + 1 ELSE wins
        /\ UNCHANGED <<placing, storedGames>>
        /\ UNCHANGED <<routeVars, lobbyVars, authVars>>

\* game.reset(): clears hits, misses and ships, then place_fleet()
Reset ==
    /\ \E p \in EngineFleets[game.size] : game' = MkGame(game.size, p)
    /\ result' = NoResult
    /\ shot' = <<>>
    /\ wins' = 0
    /\ UNCHANGED <<placing, storedGames>>
    /\ UNCHANGED <<routeVars, lobbyVars, authVars>>

\* game.place_fleet() called on its own: ships are cleared and placed again,
\* hits and misses stay
PlaceFleetCall ==
    /\ \E p \in EngineFleets[game.size] :
           game' = [game EXCEPT !.ships = ShipsOf(p), !.placed = p]
    /\ UNCHANGED <<result, shot, wins, placing, storedGames>>
    /\ UNCHANGED <<routeVars, lobbyVars, authVars>>

EngineNext == FireShot \/ Reset
EngineSpec == EngineInit /\ [][EngineNext]_vars

\* the first game.fire(x, y) on a board without shots
FireFirstShot == game.hits \cup game.misses = {} /\ FireShot

PlaceNext == FireFirstShot \/ Reset \/ PlaceFleetCall
PlaceSpec == EngineInit /\ [][PlaceNext]_vars

\* place_fleet, one step of its loops at a time
max_attempts == 100

\* the ship lengths place_fleet walks through
PlacingFleet == GetFleetConfig(game.size)

\* the for loop moves on to the ship after placing.i, or place_fleet returns
\* after the last one
AfterShip(i) == IF i < Len(PlacingFleet) THEN [i |-> i + 1, attempts |-> 0] ELSE NoPlacing

\* place_fleet is called: self.ships.clear(), then the for loop starts on the
\* first length with attempts = 0
PlaceFleetBegin ==
    /\ placing = NoPlacing
    /\ game' = [game EXCEPT !.ships = {}, !.placed = <<>>]
    /\ placing' = [i |-> 1, attempts |-> 0]
    /\ UNCHANGED <<result, shot, wins, storedGames>>
    /\ UNCHANGED <<routeVars, lobbyVars, authVars>>

\* a failed attempt that is not counted
PlaceAttemptUncounted ==
    /\ placing.i >= 1
    /\ placing.attempts < max_attempts
    /\ \E coords \in Candidates(game.size, PlacingFleet[placing.i], MaxRandY) :
         IF IsValidPlacement(game.ships, coords)
         THEN /\ game' = [game EXCEPT !.ships = @ \cup coords, !.placed = Append(@, coords)]
              /\ placing' = AfterShip(placing.i)
         ELSE /\ game' = game
              /\ placing' = placing
    /\ UNCHANGED <<result, shot, wins, storedGames>>
    /\ UNCHANGED <<routeVars, lobbyVars, authVars>>

\* one pass of the while loop: draw an orientation and a position; a valid
\* placement is added to the ships and breaks out of the loop, an invalid one
\* adds one to attempts
PlaceAttempt ==
    /\ placing.i >= 1
    /\ placing.attempts < max_attempts
    /\ \E coords \in Candidates(game.size, PlacingFleet[placing.i], MaxRandY) :
         IF IsValidPlacement(game.ships, coords)
         THEN /\ game' = [game EXCEPT !.ships = @ \cup coords, !.placed = Append(@, coords)]
              /\ placing' = AfterShip(placing.i)
         ELSE /\ game' = game
              /\ placing' = [placing EXCEPT !.attempts = @ + 1]
    /\ UNCHANGED <<result, shot, wins, storedGames>>
    /\ UNCHANGED <<routeVars, lobbyVars, authVars>>

\* the while condition fails (attempts = max_attempts): the ship is left out
\* and the for loop goes on
PlaceGiveUp ==
    /\ placing.i >= 1
    /\ placing.attempts >= max_attempts
    /\ placing' = AfterShip(placing.i)
    /\ UNCHANGED <<game, result, shot, wins, storedGames>>
    /\ UNCHANGED <<routeVars, lobbyVars, authVars>>

PlaceLoopNext == PlaceFleetBegin \/ PlaceAttempt \/ PlaceGiveUp
PlaceLoopSpec == EngineInit /\ [][PlaceLoopNext]_vars
\* the interpreter keeps running place_fleet once it is called
PlaceLoopFairSpec == PlaceLoopSpec /\ WF_vars(PlaceAttempt \/ PlaceGiveUp)

\* ------------------------------------------------ game routes: handlers
\* mutant: the cells of the first row and column are refused too
InBoundsInterior(xy, size) == 0 < xy[1] /\ xy[1] < size /\ 0 < xy[2] /\ xy[2] < size

\* mutant: only the upper bounds are checked
InBoundsUpperOnly(xy, size) == xy[1] < size /\ xy[2] < size

\* _take_turn's bounds check
InBounds(xy, size) == 0 <= xy[1] /\ xy[1] < size /\ 0 <= xy[2] /\ xy[2] < size

\* mutant: the opponent fires back after every hit, the winning one included
OpponentRepliesAfterHit(presult) == Get(presult, "hit")

\* mutant: the opponent fires back after every new shot
OpponentRepliesAlways(presult) == TRUE

\* _take_turn: "if not result.get('won')" guards the opponent's shot
OpponentReplies(presult) == ~Get(presult, "won")

\* mutant: guests are scored too
ScoreIsSavedForAll(user, presult) == Get(presult, "hit") /\ Get(presult, "won")

\* _take_turn: save_user_score is called on a winning hit of a signed-in player
ScoreIsSaved(user, presult) ==
    Get(presult, "hit") /\ Get(presult, "won") /\ user # NoUser

\* the narration of the player's shot and of the opponent's reply; a log
\* entry is the sequence of its sentences, each kept without its coordinates
PlayerMessages(xy, presult) ==
    IF Get(presult, "hit")
    THEN <<"HIT">> \o (IF Get(presult, "won") THEN <<"VICTORY">> ELSE <<>>)
    ELSE <<"MISS">>

ReplyMessage(mv, aresult) ==
    IF Get(aresult, "hit") THEN "ENEMY HIT" ELSE "ENEMY MISS"

\* what a request did: the handler, the caller, whether the coordinates
\* are on the board, the branch taken, the dict the player's fire returned,
\* the moves the opponent was asked for, whether save_user_score ran
Observed(op, user, tier, xy, outcome, presult, ai_moves, saved) ==
    [op |-> op, user |-> user, tier |-> tier,
     onboard |-> xy # <<>> /\ OnBoard(xy, STANDARD_BOARD_SIZE),
     outcome |-> outcome, presult |-> presult, ai_moves |-> ai_moves, saved |-> saved]

\* _take_turn on session sess (already fetched or created by get_user_session)
\* for the player's shot xy: the possible results, each the session, the scores
\* table and the observation of the call
TakeTurn(sess, rows, user, tier, xy) ==
    LET player_board == sess.player_target
        ai_board == sess.ai_target
        same(outcome) ==
            {[sess |-> sess, rows |-> rows,
              req |-> Observed("make-move", user, tier, xy, outcome, NoResult, <<>>, FALSE)]}
    IN
    IF PlayerWon(sess) \/ AiWon(sess) THEN same("game over")
    ELSE IF ~InBounds(xy, player_board.size) THEN same("invalid")
    ELSE
      LET p == Fire(player_board, xy) IN
      IF Get(p.result, "repeat")
      THEN {[sess |-> [sess EXCEPT !.player_target = p.game,
                                   !.log = AppendLog(@, <<"REPEAT">>)],
             rows |-> rows,
             req |-> Observed("make-move", user, tier, xy, "repeat", p.result, <<>>, FALSE)]}
      ELSE
        LET saved == ScoreIsSaved(user, p.result)
            rows1 == IF saved THEN SaveUserScore(rows, user, p.game) ELSE rows
            msgs == PlayerMessages(xy, p.result)
        IN
        IF OpponentReplies(p.result)
        THEN {LET a == Fire(ai_board, mv) IN
              [sess |-> [player_target |-> p.game, ai_target |-> a.game,
                         log |-> AppendLog(sess.log, Append(msgs, ReplyMessage(mv, a.result)))],
               rows |-> rows1,
               req |-> Observed("make-move", user, tier, xy, "played", p.result, <<mv>>, saved)] :
                 mv \in GetBestMove(ai_board, AiDifficulty(tier))}
        ELSE {[sess |-> [player_target |-> p.game, ai_target |-> ai_board,
                         log |-> AppendLog(sess.log, msgs)],
               rows |-> rows1,
               req |-> Observed("make-move", user, tier, xy, "played", p.result, <<>>, saved)]}

\* the coordinates a client submits to /make-move: x in -1..MaxShotX and the
\* first x beyond the board, y = 0
MoveInputs == ShotInputs \cup {<<STANDARD_BOARD_SIZE, 0>>}

EngineIdle ==
    /\ game = MkGame(DEFAULT_BOARD_SIZE, <<>>)
    /\ result = NoResult
    /\ shot = <<>>
    /\ wins = 0
    /\ placing = NoPlacing
    /\ user_games = NoUserGames
    /\ guest_game = NoGame

\* one client (a signed-in user or a guest, with the ai_tier it submits)
GameInit ==
    /\ EngineIdle
    /\ \E u \in Callers, t \in TierInputs : clients = {<<u, t>>}
    /\ sessions = [k \in SessionKeys |-> NoSession]
    /\ scores = <<>>
    /\ req = NoReq
    /\ LobbyIdle
    /\ AuthIdle

\* POST /new (op = "new") and POST /reset (op = "reset", which calls new_game)
NewGameRequest(op) ==
    /\ Len(scores) < MaxScores
    /\ \E cl \in clients : \E fresh \in NewSessions :
         LET tier == ParseTier(cl[2])
             key == SessionKey(cl[1], tier)
         IN  /\ sessions' = [sessions EXCEPT ![key] = [fresh EXCEPT !.log = <<>>]]
             /\ req' = Observed(op, cl[1], tier, <<>>, "new", NoResult, <<>>, FALSE)
    /\ UNCHANGED <<clients, scores>>
    /\ UNCHANGED <<engineVars, lobbyVars, authVars>>

NewGame == NewGameRequest("new")

ResetGame == NewGameRequest("reset")

\* POST /make-move with coordinates drawn from inputs
MakeMoveFrom(inputs) ==
    /\ \E cl \in clients : \E xy \in inputs :
         LET tier == ParseTier(cl[2])
             key == SessionKey(cl[1], tier)
         IN  \E sess \in (IF sessions[key] = NoSession THEN NewSessions ELSE {sessions[key]}) :
               \E t \in TakeTurn(sess, scores, cl[1], tier, xy) :
                  /\ sessions' = [sessions EXCEPT ![key] = t.sess]
                  /\ scores' = t.rows
                  /\ req' = t.req
    /\ UNCHANGED clients
    /\ UNCHANGED <<engineVars, lobbyVars, authVars>>

\* POST /make-move
MakeMove == MakeMoveFrom(MoveInputs)

GameNext == NewGame \/ ResetGame \/ MakeMove
GameSpec == GameInit /\ [][GameNext]_vars

\* the specifications with two clients: the tiers they play and the
\* coordinates they shoot at
PairTiers == {"rookie", "veteran"}
PairShotInputs == {<<0, 0>>, <<1, 0>>}
PairMoveInputs == {<<0, 0>>}

\* two clients of the game routes sending requests in any order: guests on
\* two tiers, a guest and a signed-in user on one tier, or one user on two
\* tiers (any number of browsers without a login is the one caller NoUser);
\* they shoot at (0, 0)
GamePairInit ==
    /\ EngineIdle
    /\ clients \in {{<<NoUser, "rookie">>, <<NoUser, "veteran">>},
                    {<<NoUser, "rookie">>, <<"u1", "rookie">>},
                    {<<"u1", "rookie">>, <<"u1", "veteran">>}}
    /\ sessions = [k \in SessionKeys |-> NoSession]
    /\ scores = <<>>
    /\ req = NoReq
    /\ LobbyIdle
    /\ AuthIdle

PairMakeMove == MakeMoveFrom(PairMoveInputs)

GamePairNext == NewGame \/ ResetGame \/ PairMakeMove
GamePairSpec == GamePairInit /\ [][GamePairNext]_vars

\* ------------------------------------------------ AI lobby: handlers
\* start_game: the session dict it stores
NewLobbySessions(tier_norm, key_configured) ==
    LET board_size == TierBoardSize(tier_norm)
        ai_opponent ==
            IF tier_norm = PsyOps
            THEN IF ~key_configured THEN CreateAi("admiral", board_size)
                 ELSE NewOpponent("llm", board_size)
            ELSE CreateAi(tier_norm, board_size)
    IN  {[player_game |-> MkGame(board_size, p),
          ai_game |-> MkGame(board_size, q),
          ai_opponent |-> ai_opponent,
          turn |-> "player",
          last_ai_move |-> <<>>] :
            p \in RouteFleets[board_size], q \in RouteFleets[board_size]}

\* what a lobby request did: the handler, the caller, the normalised tier,
\* the response (ok, 404, or 500 for an exception that left the handler), the
\* dict the player's fire returned, the number of make_move calls
LobbyObserved(op, user, tier_norm, status, presult, asked) ==
    [op |-> op, user |-> user, tier |-> tier_norm, status |-> status,
     presult |-> presult, asked |-> asked]

\* mutant: only a session waiting for the opponent is left alone
TurnIsNotAi(sess) == sess.turn # "ai"

\* player_shot: session_data["turn"] == "player"
TurnIsPlayer(sess) == sess.turn = "player"

\* player_shot on the session found for (user, tier_norm): the possible
\* results, each the session afterwards and the observation of the call
PlayerShot(sess, user, tier_norm, xy) ==
    LET seen(status, presult, asked) ==
            LobbyObserved("ai/shot", user, tier_norm, status, presult, asked)
    IN
    IF ~TurnIsPlayer(sess) THEN {[sess |-> sess, req |-> seen("ok", NoResult, 0)]}
    ELSE
      LET p == Fire(sess.player_game, xy)
          shot_at == [sess EXCEPT !.player_game = p.game]
      IN
      IF Get(p.result, "won")
      THEN {[sess |-> [shot_at EXCEPT !.turn = "game_over"], req |-> seen("ok", p.result, 0)]}
      ELSE IF ~Get(p.result, "repeat")
      THEN {IF m.raised
            THEN [sess |-> [shot_at EXCEPT !.turn = "ai", !.ai_opponent = m.ai],
                  req |-> seen("500", p.result, 1)]
            ELSE LET a == Fire(shot_at.ai_game, m.move)
                 IN  [sess |-> [shot_at EXCEPT
                          !.ai_game = a.game,
                          !.ai_opponent = UpdateGameState(m.ai, m.move[1], m.move[2],
                                                          Get(a.result, "hit")),
                          !.last_ai_move = m.move,
                          !.turn = IF Get(a.result, "won") THEN "game_over" ELSE "player"],
                      req |-> seen("ok", p.result, 1)] :
              m \in AiMakeMove(shot_at.ai_opponent)}
      ELSE {[sess |-> shot_at, req |-> seen("ok", p.result, 0)]}

\* mutant: a missing session is created, as get_user_session does
GetOrCreateSession(store, key) ==
    IF store[key] # NoSession THEN {store[key]}
    ELSE IF key[2] \in LobbyTiers THEN NewLobbySessions(key[2], FALSE)
    ELSE {}

\* player_shot: _SESSIONS.get(key); no session gives the 404
GetSession(store, key) == IF store[key] # NoSession THEN {store[key]} ELSE {}

\* one signed-in client with the tier string it submits; OPENAI_API_KEY is
\* configured or not
LobbyInit ==
    /\ EngineIdle
    /\ \E u \in Users, t \in LobbyTierInputs : clients = {<<u, t>>}
    /\ sessions = [k \in SessionKeys |-> NoSession]
    /\ scores = <<>>
    /\ req = NoReq
    /\ ai_sessions = [k \in LobbyKeys |-> NoSession]
    /\ api_key \in BOOLEAN
    /\ in_flight = <<>>
    /\ AuthIdle

\* POST /ai/start
StartGame ==
    /\ \E cl \in clients :
         LET tier_norm == TierNorm(cl[2]) IN
         IF tier_norm \notin (LobbyTiers \cup {PsyOps})
         THEN /\ req' = LobbyObserved("ai/start", cl[1], tier_norm, "404", NoResult, 0)
              /\ UNCHANGED ai_sessions
         ELSE \E fresh \in NewLobbySessions(tier_norm, api_key) :
                /\ ai_sessions' = [ai_sessions EXCEPT ![Key(cl[1], tier_norm)] = fresh]
                /\ req' = LobbyObserved("ai/start", cl[1], tier_norm, "ok", NoResult, 0)
    /\ UNCHANGED <<clients, sessions, scores, api_key, in_flight>>
    /\ UNCHANGED <<engineVars, authVars>>

\* POST /ai/shot with coordinates drawn from inputs
AiShotFrom(inputs) ==
    /\ \E cl \in clients : \E xy \in inputs :
         LET tier_norm == TierNorm(cl[2])
             found == GetSession(ai_sessions, Key(cl[1], tier_norm))
         IN  IF found = {}
             THEN /\ req' = LobbyObserved("ai/shot", cl[1], tier_norm, "404", NoResult, 0)
                  /\ UNCHANGED ai_sessions
             ELSE \E session_data \in found :
                  \E t \in PlayerShot(session_data, cl[1], tier_norm, xy) :
                    /\ ai_sessions' = [ai_sessions EXCEPT ![Key(cl[1], tier_norm)] = t.sess]
                    /\ req' = t.req
    /\ UNCHANGED <<clients, sessions, scores, api_key, in_flight>>
    /\ UNCHANGED <<engineVars, authVars>>

\* POST /ai/shot
AiShot == AiShotFrom(ShotInputs)

LobbyNext == StartGame \/ AiShot
LobbySpec == LobbyInit /\ [][LobbyNext]_vars

\* two signed-in users, each with a rule-based tier (the same one or not),
\* sending their requests in any order; their shots are at (0, 0) or (1, 0)

LobbyPairInit ==
    /\ EngineIdle
    /\ \E t1 \in PairTiers, t2 \in PairTiers : clients = {<<"u1", t1>>, <<"u2", t2>>}
    /\ sessions = [k \in SessionKeys |-> NoSession]
    /\ scores = <<>>
    /\ req = NoReq
    /\ ai_sessions = [k \in LobbyKeys |-> NoSession]
    /\ api_key = FALSE
    /\ in_flight = <<>>
    /\ AuthIdle

PairAiShot == AiShotFrom(PairShotInputs)

LobbyPairNext == StartGame \/ PairAiShot
LobbyPairSpec == LobbyPairInit /\ [][LobbyPairNext]_vars

\* ------------------------------------------------ AI lobby: two shots at once
\* player_shot is a plain def, so each request runs on a worker thread of the
\* server; the session dict and its Game objects are shared by the threads.
\* A request is at "start", at "fire" (turn checked), at "reply" (shot fired,
\* turn written) or "done"
Requests == 1..2
RaceUser == "u1"
RaceTier == "rookie"
RaceKey == Key(RaceUser, RaceTier)

NewRequest(xy) == [pc |-> "start", xy |-> xy, turn_read |-> "", presult |-> NoResult]

\* a rookie session just started and two /ai/shot requests for it received
RaceInit ==
    /\ EngineIdle
    /\ clients = {<<RaceUser, RaceTier>>}
    /\ sessions = [k \in SessionKeys |-> NoSession]
    /\ scores = <<>>
    /\ req = NoReq
    /\ \E fresh \in NewLobbySessions(RaceTier, FALSE) :
         ai_sessions = [[k \in LobbyKeys |-> NoSession] EXCEPT ![RaceKey] = fresh]
    /\ api_key = FALSE
    /\ in_flight \in [Requests -> {NewRequest(xy) : xy \in PairShotInputs}]
    /\ AuthIdle

\* mutant: the shot is fired only if the turn is still the player's
FireIfStillPlayersTurn(sess, xy) ==
    IF sess.turn = "player" THEN Fire(sess.player_game, xy)
    ELSE [game |-> sess.player_game, result |-> NoResult]

\* player_result = player_game.fire(x, y)
FirePlayerShot(sess, xy) == Fire(sess.player_game, xy)

\* player_shot up to the turn check: the session is looked up and its turn read
CheckTurn ==
    /\ \E r \in Requests :
         /\ in_flight[r].pc = "start"
         /\ in_flight' = [in_flight EXCEPT
                ![r].turn_read = ai_sessions[RaceKey].turn,
                ![r].pc = IF TurnIsPlayer(ai_sessions[RaceKey]) THEN "fire" ELSE "done"]
    /\ UNCHANGED <<clients, sessions, scores, req, ai_sessions, api_key>>
    /\ UNCHANGED <<engineVars, authVars>>

\* player_shot from the player's fire to the write of the turn: game_over
\* after the winning shot, ai after another new shot, no write after a repeat
FirePlayer ==
    /\ \E r \in Requests :
         LET sess == ai_sessions[RaceKey]
             p == FirePlayerShot(sess, in_flight[r].xy)
             shot_at == [sess EXCEPT !.player_game = p.game]
             replies == ~Get(p.result, "won") /\ ~Get(p.result, "repeat")
         IN  /\ in_flight[r].pc = "fire"
             /\ ai_sessions' = [ai_sessions EXCEPT ![RaceKey] =
                    IF Get(p.result, "won") THEN [shot_at EXCEPT !.turn = "game_over"]
                    ELSE IF replies THEN [shot_at EXCEPT !.turn = "ai"]
                    ELSE shot_at]
             /\ in_flight' = [in_flight EXCEPT
                    ![r].presult = p.result,
                    ![r].pc = IF replies THEN "reply" ELSE "done"]
    /\ UNCHANGED <<clients, sessions, scores, req, api_key>>
    /\ UNCHANGED <<engineVars, authVars>>

\* player_shot from make_move to the last write of the turn
Reply ==
    /\ \E r \in Requests :
         LET sess == ai_sessions[RaceKey] IN
         /\ in_flight[r].pc = "reply"
         /\ \E m \in AiMakeMove(sess.ai_opponent) :
              LET a == Fire(sess.ai_game, m.move) IN
              /\ ~m.raised
              /\ ai_sessions' = [ai_sessions EXCEPT ![RaceKey] =
                     [sess EXCEPT
                        !.ai_game = a.game,
                        !.ai_opponent = UpdateGameState(m.ai, m.move[1], m.move[2],
                                                        Get(a.result, "hit")),
                        !.last_ai_move = m.move,
                        !.turn = IF Get(a.result, "won") THEN "game_over" ELSE "player"]]
         /\ in_flight' = [in_flight EXCEPT ![r].pc = "done"]
    /\ UNCHANGED <<clients, sessions, scores, req, api_key>>
    /\ UNCHANGED <<engineVars, authVars>>

RaceNext == CheckTurn \/ FirePlayer \/ Reply
RaceSpec == RaceInit /\ [][RaceNext]_vars

\* ------------------------------------------------ game routes: requests in flight
\* new_game, reset_game, make_move and _take_turn are coroutines (async def)
\* on the server's one event loop; their only await is on save_user_score,
\* which awaits nothing itself, so a handler that has started runs to its
\* return before another starts. Several requests of one client can be
\* received (form parsed, user resolved) and waiting to run at the same time.
NoRequest == [op |-> "none", xy |-> <<>>]
FlightTier == "rookie"

InFlightInit ==
    /\ EngineIdle
    /\ \E u \in Callers : clients = {<<u, FlightTier>>}
    /\ sessions = [k \in SessionKeys |-> NoSession]
    /\ scores = <<>>
    /\ req = NoReq
    /\ ai_sessions = [k \in LobbyKeys |-> NoSession]
    /\ api_key = FALSE
    /\ in_flight = [r \in Requests |-> NoRequest]
    /\ AuthIdle

\* a POST /new or a POST /make-move arrives while others may be waiting
ReceiveRequest ==
    /\ \E r \in Requests :
         /\ in_flight[r] = NoRequest
         /\ \E rq \in {[op |-> "new", xy |-> <<>>]} \cup
                      {[op |-> "make-move", xy |-> xy] : xy \in ShotInputs} :
              in_flight' = [in_flight EXCEPT ![r] = rq]
    /\ UNCHANGED <<ai_sessions, api_key, routeVars>>
    /\ UNCHANGED <<engineVars, authVars>>

\* the event loop runs new_game for a waiting request, start to end
HandleNew ==
    /\ Len(scores) < MaxScores
    /\ \E r \in Requests : \E cl \in clients : \E fresh \in NewSessions :
         LET tier == ParseTier(cl[2])
             key == SessionKey(cl[1], tier)
         IN  /\ in_flight[r].op = "new"
             /\ sessions' = [sessions EXCEPT ![key] = [fresh EXCEPT !.log = <<>>]]
             /\ req' = Observed("new", cl[1], tier, <<>>, "new", NoResult, <<>>, FALSE)
             /\ in_flight' = [in_flight EXCEPT ![r] = NoRequest]
    /\ UNCHANGED <<clients, scores, ai_sessions, api_key>>
    /\ UNCHANGED <<engineVars, authVars>>

\* make_move and _take_turn for the waiting request r, start to end
RunTakeTurn(r) ==
    /\ in_flight[r].op = "make-move"
    /\ \E cl \in clients :
         LET tier == ParseTier(cl[2])
             key == SessionKey(cl[1], tier)
         IN  \E sess \in (IF sessions[key] = NoSession THEN NewSessions ELSE {sessions[key]}) :
               \E t \in TakeTurn(sess, scores, cl[1], tier, in_flight[r].xy) :
                  /\ sessions' = [sessions EXCEPT ![key] = t.sess]
                  /\ scores' = t.rows
                  /\ req' = t.req
    /\ in_flight' = [in_flight EXCEPT ![r] = NoRequest]
    /\ UNCHANGED <<clients, ai_sessions, api_key>>
    /\ UNCHANGED <<engineVars, authVars>>

\* mutant: two waiting /make-move requests may also resolve their turns on
\* the same read of the session, the second one's write being the one kept
HandleMoveInterleaved ==
    \/ \E r \in Requests : RunTakeTurn(r)
    \/ /\ \E r \in Requests, q \in Requests : \E cl \in clients :
            LET tier == ParseTier(cl[2])
                key == SessionKey(cl[1], tier)
            IN  /\ r # q
                /\ in_flight[r].op = "make-move"
                /\ in_flight[q].op = "make-move"
                /\ sessions[key] # NoSession
                /\ \E t1 \in TakeTurn(sessions[key], scores, cl[1], tier, in_flight[r].xy) :
                   \E t2 \in TakeTurn(sessions[key], t1.rows, cl[1], tier, in_flight[q].xy) :
                      /\ sessions' = [sessions EXCEPT ![key] = t2.sess]
                      /\ scores' = t2.rows
                      /\ req' = t2.req
                /\ in_flight' = [in_flight EXCEPT ![r] = NoRequest, ![q] = NoRequest]
       /\ UNCHANGED <<clients, ai_sessions, api_key>>
       /\ UNCHANGED <<engineVars, authVars>>

\* the event loop runs make_move for a waiting request
HandleMove == \E r \in Requests : RunTakeTurn(r)

InFlightNext == ReceiveRequest \/ HandleNew \/ HandleMove
InFlightSpec == InFlightInit /\ [][InFlightNext]_vars

\* ------------------------------------------------ earlier game routes (api/routes/game_routes.py)
\* the board_size values a client submits and the tier it plays
StatusSizes == {DEFAULT_BOARD_SIZE, MaxBoardSize}
StatusTier == "rookie"

\* get_user_game(user, size, ai_tier): the stores after the call and the
\* game it returns. A signed-in user's game is looked up under its key and
\* created when missing; the one guest game is created when there is none
\* or when its size is not the size asked for
GetUserGame(games, guest, user, size, ai_tier) ==
    IF user # NoUser
    THEN LET k == GameKey(user, size, ai_tier) IN
         IF games[k] = NoGame
         THEN {[user_games |-> [games EXCEPT ![k] = MkGame(size, p)], guest_game |-> guest,
                game |-> MkGame(size, p)] : p \in RouteFleets[size]}
         ELSE {[user_games |-> games, guest_game |-> guest, game |-> games[k]]}
    ELSE IF guest = NoGame \/ guest.size # size
         THEN {[user_games |-> games, guest_game |-> MkGame(size, p),
                game |-> MkGame(size, p)] : p \in RouteFleets[size]}
         ELSE {[user_games |-> games, guest_game |-> guest, game |-> guest]}

\* the stores with game g in the place get_user_game returned it from
StoreGame(games, guest, user, size, ai_tier, g) ==
    IF user # NoUser
    THEN [user_games |-> [games EXCEPT ![GameKey(user, size, ai_tier)] = g], guest_game |-> guest]
    ELSE [user_games |-> games, guest_game |-> g]

\* what a request of the earlier routes did, and the board size of the game
\* the client last created or shot at
Status(op, user, tier, playing, status) ==
    [op |-> op, user |-> user, tier |-> tier, playing |-> playing, status |-> status]

StatusInit ==
    /\ EngineIdle
    /\ \E u \in Callers : clients = {<<u, StatusTier>>}
    /\ sessions = [k \in SessionKeys |-> NoSession]
    /\ scores = <<>>
    /\ req = NoReq
    /\ LobbyIdle
    /\ AuthIdle

\* POST /new and POST /reset with a board_size: reset_user_game stores a new game
StatusNewGame ==
    /\ \E cl \in clients, board_size \in StatusSizes :
         LET size == ClampSize(board_size)
             tier == ParseTier(cl[2])
         IN  \E p \in RouteFleets[size] :
               LET st == StoreGame(user_games, guest_game, cl[1], size, tier, MkGame(size, p)) IN
               /\ user_games' = st.user_games
               /\ guest_game' = st.guest_game
               /\ req' = Status("new", cl[1], tier, size, <<>>)
    /\ UNCHANGED <<game, result, shot, wins, placing, clients, sessions, scores>>
    /\ UNCHANGED <<lobbyVars, authVars>>

\* POST /shot/{x}/{y} with a board_size: fires at the game get_user_game
\* returns when the coordinates are on it, and saves the score of a
\* signed-in player's winning shot
StatusShot ==
    /\ \E cl \in clients, board_size \in StatusSizes, xy \in PairShotInputs :
         LET size == ClampSize(board_size)
             tier == ParseTier(cl[2])
         IN  \E got \in GetUserGame(user_games, guest_game, cl[1], size, tier) :
               LET f == IF InBounds(xy, got.game.size) THEN Fire(got.game, xy)
                        ELSE [game |-> got.game, result |-> NoResult]
                   st == StoreGame(got.user_games, got.guest_game, cl[1], size, tier, f.game)
               IN  /\ user_games' = st.user_games
                   /\ guest_game' = st.guest_game
                   /\ scores' = IF Get(f.result, "won") /\ cl[1] # NoUser
                                THEN SaveUserScore(scores, cl[1], f.game) ELSE scores
                   /\ req' = Status("shot", cl[1], tier, size, <<>>)
    /\ UNCHANGED <<game, result, shot, wins, placing, clients, sessions>>
    /\ UNCHANGED <<lobbyVars, authVars>>

\* GET /game-status: get_user_game(current_user, ai_tier=...) with the default
\* size, then game.get_stats()
GameStatus ==
    /\ \E cl \in clients :
         LET tier == ParseTier(cl[2]) IN
         \E got \in GetUserGame(user_games, guest_game, cl[1], DEFAULT_BOARD_SIZE, tier) :
            /\ user_games' = got.user_games
            /\ guest_game' = got.guest_game
            /\ req' = Status("game-status", cl[1], tier,
                             IF req = NoReq THEN 0 ELSE req.playing, GetStats(got.game))
    /\ UNCHANGED <<game, result, shot, wins, placing, clients, sessions, scores>>
    /\ UNCHANGED <<lobbyVars, authVars>>

StatusNext == StatusNewGame \/ StatusShot \/ GameStatus
GameStatusSpec == StatusInit /\ [][StatusNext]_vars

\* ------------------------------------------------ rate limiter: calls
\* the limits and the windows (in seconds) the limiter is called with
LimitInputs == 1..2
WindowInputs == 1..2

\* a limiter with rate limiting enabled, a limit and a window; the buckets
\* start empty
RateInit ==
    /\ EngineIdle
    /\ RoutesIdle
    /\ LobbyIdle
    /\ now = 0
    /\ rate_limit_store = [k \in RateKeys |-> <<>>]
    /\ \E l \in LimitInputs, w \in WindowInputs :
           rate_cfg = [enabled |-> TRUE, limit |-> l, window |-> w]
    /\ rate_ret = NoRateRet
    /\ rate_history = NoRateHistory
    /\ users = Accounts
    /\ user_sessions = <<>>
    /\ login_ret = NoLoginRet
    /\ auth_ret = NoAuthRet
    /\ tokens_issued = 0

\* a second passes
Tick ==
    /\ now < MaxTime
    /\ now' = now + 1
    /\ UNCHANGED <<rateVars, loginVars>>
    /\ UNCHANGED <<engineVars, routeVars, lobbyVars>>

\* auth_service.check_rate_limit(request, action, limit, window), one call
\* at a time
CheckRateLimitCall ==
    /\ \E key \in RateKeys :
         LET r == CheckRateLimit(rate_limit_store, rate_cfg.enabled, key, now,
                                 rate_cfg.limit, rate_cfg.window)
         IN  /\ rate_limit_store' = r.store
             /\ rate_ret' = [key |-> key, at |-> now, allowed |-> r.allowed]
             /\ rate_history' = Recorded(rate_history, rate_cfg.enabled, key, now, r.allowed)
    /\ UNCHANGED <<now, rate_cfg, loginVars>>
    /\ UNCHANGED <<engineVars, routeVars, lobbyVars>>

RateNext == Tick \/ CheckRateLimitCall
RateSpec == RateInit /\ [][RateNext]_vars

\* ------------------------------------------------ rate limiter: racing calls
\* login is a plain def, so each POST /auth/login runs on a worker thread and
\* the threads share _rate_limit_store. A call is "idle" (not in
\* check_rate_limit), at "replace" (bucket read by setdefault), at "count"
\* (bucket list replaced) or at "append" (count check passed). `aliased` says
\* that the list the call holds as bucket is still the list in the store;
\* once another call replaces that list, `bucket` is what the old list held.
MaxCalls == 2
LoginKey == RateKey("login", "10.0.0.1")
NoCall == [pc |-> "idle", at |-> 0, bucket |-> <<>>, aliased |-> FALSE, calls |-> 0]

RateRaceInit ==
    /\ EngineIdle
    /\ RoutesIdle
    /\ ai_sessions = [k \in LobbyKeys |-> NoSession]
    /\ api_key = FALSE
    /\ in_flight = [r \in Requests |-> NoCall]
    /\ now = 0
    /\ rate_limit_store = [k \in RateKeys |-> <<>>]
    /\ \E l \in LimitInputs, w \in WindowInputs :
           rate_cfg = [enabled |-> TRUE, limit |-> l, window |-> w]
    /\ rate_ret = NoRateRet
    /\ rate_history = NoRateHistory
    /\ users = Accounts
    /\ user_sessions = <<>>
    /\ login_ret = NoLoginRet
    /\ auth_ret = NoAuthRet
    /\ tokens_issued = 0

\* the list the call filters: the store's list while it is still the one the
\* call read, else what that list held when it was replaced
HeldBucket(call) == IF call.aliased THEN rate_limit_store[LoginKey] ELSE call.bucket

\* now = datetime.now(UTC).timestamp(); bucket = _rate_limit_store.setdefault(key, [])
BucketRead ==
    /\ \E r \in Requests :
         /\ in_flight[r].pc = "idle"
         /\ in_flight[r].calls < MaxCalls
         /\ in_flight' = [in_flight EXCEPT ![r] =
                [pc |-> "replace", at |-> now, bucket |-> <<>>, aliased |-> TRUE,
                 calls |-> @.calls + 1]]
    /\ UNCHANGED <<ai_sessions, api_key, now, rateVars, loginVars>>
    /\ UNCHANGED <<engineVars, routeVars>>

\* _rate_limit_store[key] = [t for t in bucket if now - t < window]: the
\* store gets a new list; the calls that hold the old one keep it
BucketReplace ==
    /\ \E r \in Requests :
         /\ in_flight[r].pc = "replace"
         /\ rate_limit_store' = [rate_limit_store EXCEPT ![LoginKey] =
                Younger(HeldBucket(in_flight[r]), in_flight[r].at, rate_cfg.window)]
         /\ in_flight' = [q \in Requests |->
                IF q = r THEN [in_flight[q] EXCEPT !.pc = "count", !.aliased = FALSE,
                                                   !.bucket = <<>>]
                ELSE IF in_flight[q].aliased
                     THEN [in_flight[q] EXCEPT !.aliased = FALSE,
                                               !.bucket = rate_limit_store[LoginKey]]
                     ELSE in_flight[q]]
    /\ UNCHANGED <<ai_sessions, api_key, now, rate_cfg, rate_ret, rate_history, loginVars>>
    /\ UNCHANGED <<engineVars, routeVars>>

\* if len(_rate_limit_store[key]) >= limit: return False
BucketCount ==
    /\ \E r \in Requests :
         /\ in_flight[r].pc = "count"
         /\ IF Len(rate_limit_store[LoginKey]) >= rate_cfg.limit
            THEN /\ in_flight' = [in_flight EXCEPT ![r].pc = "idle"]
                 /\ rate_ret' = [key |-> LoginKey, at |-> in_flight[r].at, allowed |-> FALSE]
                 /\ rate_history' = Recorded(rate_history, TRUE, LoginKey, in_flight[r].at, FALSE)
            ELSE /\ in_flight' = [in_flight EXCEPT ![r].pc = "append"]
                 /\ UNCHANGED <<rate_ret, rate_history>>
    /\ UNCHANGED <<ai_sessions, api_key, now, rate_limit_store, rate_cfg, loginVars>>
    /\ UNCHANGED <<engineVars, routeVars>>

\* _rate_limit_store[key].append(now); return True
BucketAppend ==
    /\ \E r \in Requests :
         /\ in_flight[r].pc = "append"
         /\ rate_limit_store' = [rate_limit_store EXCEPT ![LoginKey] =
                Append(@, in_flight[r].at)]
         /\ in_flight' = [in_flight EXCEPT ![r].pc = "idle"]
         /\ rate_ret' = [key |-> LoginKey, at |-> in_flight[r].at, allowed |-> TRUE]
         /\ rate_history' = Recorded(rate_history, TRUE, LoginKey, in_flight[r].at, TRUE)
    /\ UNCHANGED <<ai_sessions, api_key, now, rate_cfg, loginVars>>
    /\ UNCHANGED <<engineVars, routeVars>>

\* a second passes while calls are in flight
RaceTick ==
    /\ now < MaxTime
    /\ now' = now + 1
    /\ UNCHANGED <<rateVars, loginVars>>
    /\ UNCHANGED <<engineVars, routeVars, lobbyVars>>

RateRaceNext == RaceTick \/ BucketRead \/ BucketReplace \/ BucketCount \/ BucketAppend
RateRaceSpec == RateRaceInit /\ [][RateRaceNext]_vars

\* ------------------------------------------------ local login: requests
\* check_rate_limit(auth_req, "login", 10) with the helper's window of 300
LoginLimit == 10
LoginWindow == 300

\* the accounts of the users table, no login session yet; rate limiting is
\* enabled or not (TESTING, DISABLE_RATE_LIMIT)
LoginInit ==
    /\ EngineIdle
    /\ RoutesIdle
    /\ LobbyIdle
    /\ now = 0
    /\ rate_limit_store = [k \in RateKeys |-> <<>>]
    /\ \E on \in BOOLEAN :
           rate_cfg = [enabled |-> on, limit |-> LoginLimit, window |-> LoginWindow]
    /\ rate_ret = NoRateRet
    /\ rate_history = NoRateHistory
    /\ users = Accounts
    /\ user_sessions = <<>>
    /\ login_ret = NoLoginRet
    /\ auth_ret = NoAuthRet
    /\ tokens_issued = 0

\* POST /auth/login: the rate limit, validate_login_credentials, the second
\* lookup with the address as submitted, update_last_login, the response
\* and create_session_cookies
LoginFrom(emails, passwords) ==
    /\ tokens_issued < MaxSessions
    /\ \E email \in emails, password \in passwords,
          remember \in BOOLEAN, is_hx \in BOOLEAN, ip \in ClientIps :
         LET key == RateKey("login", ip)
             r == CheckRateLimit(rate_limit_store, rate_cfg.enabled, key, now,
                                 LoginLimit, LoginWindow)
             error_response == ValidateLoginCredentials(users, email, password)
             found == GetUserByEmail(users, email)
             answer(response) == login_ret' = [email |-> email, password |-> password,
                                               response |-> response]
         IN  /\ rate_limit_store' = r.store
             /\ rate_ret' = [key |-> key, at |-> now, allowed |-> r.allowed]
             /\ rate_history' = Recorded(rate_history, rate_cfg.enabled, key, now, r.allowed)
             /\ IF ~r.allowed
                THEN /\ answer(TooManyAttempts)
                     /\ UNCHANGED <<users, user_sessions, tokens_issued>>
                ELSE IF error_response # {}
                THEN /\ \E e \in error_response : answer(e)
                     /\ UNCHANGED <<users, user_sessions, tokens_issued>>
                ELSE IF found = {}
                THEN /\ answer(InvalidLoginState)
                     /\ UNCHANGED <<users, user_sessions, tokens_issued>>
                ELSE \E id \in found :
                     /\ users' = [users EXCEPT ![id].last_login = now]
                     /\ user_sessions' = CreateSession(user_sessions, id, tokens_issued + 1,
                                                        now + SessionExpiry(remember), ip, now)
                     /\ tokens_issued' = tokens_issued + 1
                     /\ answer(Welcome(is_hx))
    /\ UNCHANGED <<now, rate_cfg, auth_ret>>
    /\ UNCHANGED <<engineVars, routeVars, lobbyVars>>

\* POST /auth/login
Login == LoginFrom(EmailInputs, PasswordInputs)

\* the requests of one burst: they all arrive within the same second
LoginNext == Login
LoginSpec == LoginInit /\ [][LoginNext]_vars

\* ------------------------------------------------ registration: requests
\* check_rate_limit(auth_req, "register", 5) with the helper's window of 300
RegisterLimit == 5
RegisterEmailInputs == EmailInputs \cup {PlusAddress}

\* the users table holds the inactive account and the delegated sign-in
\* account; nobody registered the other addresses yet
RegisterInit ==
    /\ EngineIdle
    /\ RoutesIdle
    /\ LobbyIdle
    /\ now = 0
    /\ rate_limit_store = [k \in RateKeys |-> <<>>]
    /\ \E on \in BOOLEAN :
           rate_cfg = [enabled |-> on, limit |-> RegisterLimit, window |-> LoginWindow]
    /\ rate_ret = NoRateRet
    /\ rate_history = NoRateHistory
    /\ users = [e \in {"idle@x.io", "oauth@x.io"} |-> Accounts[e]]
    /\ user_sessions = <<>>
    /\ login_ret = NoLoginRet
    /\ auth_ret = NoAuthRet
    /\ tokens_issued = 0

\* POST /auth/register: the rate limit, validate_registration_data, then the
\* lookup of the new user with the address as submitted for the message
\* (user.username of a missing user raises, which the handler answers with
\* "Registration failed.")
Register ==
    /\ \E email \in RegisterEmailInputs, password \in RegisterPasswordInputs,
          confirm_password \in RegisterPasswordInputs, ip \in ClientIps :
         LET key == RateKey("register", ip)
             r == CheckRateLimit(rate_limit_store, rate_cfg.enabled, key, now,
                                 RegisterLimit, LoginWindow)
             v == ValidateRegistrationData(users, email, password, confirm_password)
             found == GetUserByEmail(v.table, email)
             answer(response) ==
                 auth_ret' = [op |-> "register", email |-> email, password |-> password,
                              confirm_password |-> confirm_password, response |-> response]
         IN  /\ rate_limit_store' = r.store
             /\ rate_ret' = [key |-> key, at |-> now, allowed |-> r.allowed]
             /\ rate_history' = Recorded(rate_history, rate_cfg.enabled, key, now, r.allowed)
             /\ IF ~r.allowed
                THEN /\ answer(AuthResult(FALSE, "Too many register attempts. Please try again later."))
                     /\ UNCHANGED users
                ELSE IF v.error # {}
                THEN /\ \E e \in v.error : answer(e)
                     /\ UNCHANGED users
                ELSE /\ users' = v.table
                     /\ IF found = {}
                        THEN answer(AuthResult(FALSE, "Registration failed. Please try again."))
                        ELSE \E id \in found :
                               answer(AuthResult(TRUE, <<"Account created successfully for",
                                                         v.table[id].username>>))
    /\ UNCHANGED <<now, rate_cfg, user_sessions, login_ret, tokens_issued>>
    /\ UNCHANGED <<engineVars, routeVars, lobbyVars>>

RegisterNext == Register
RegisterSpec == RegisterInit /\ [][RegisterNext]_vars

\* ------------------------------------------------ login sessions: calls
\* the seconds of a day and of the lifetime of a session without "remember"
DaySeconds == 24 * 3600

\* the session tokens a caller presents: one that was never issued (-1),
\* the token of the session that exists at the start (0) and the tokens
\* the logins produce
TokenInputs == -1..MaxSessions

\* the accounts of the users table; the inactive account still has the
\* session of a login made before it was deactivated, which expires in one
\* day; rate limiting is disabled
SessionInit ==
    /\ EngineIdle
    /\ RoutesIdle
    /\ LobbyIdle
    /\ now = 0
    /\ rate_limit_store = [k \in RateKeys |-> <<>>]
    /\ rate_cfg = [enabled |-> FALSE, limit |-> LoginLimit, window |-> LoginWindow]
    /\ rate_ret = NoRateRet
    /\ rate_history = NoRateHistory
    /\ users = Accounts
    /\ user_sessions = CreateSession(<<>>, "idle@x.io", 0, SessionExpiry(FALSE), "10.0.0.1", 0)
    /\ login_ret = NoLoginRet
    /\ auth_ret = NoAuthRet
    /\ tokens_issued = 0

\* a day passes
DayPasses ==
    /\ now < MaxDays * DaySeconds
    /\ now' = now + DaySeconds
    /\ UNCHANGED <<rateVars, loginVars>>
    /\ UNCHANGED <<engineVars, routeVars, lobbyVars>>

\* POST /auth/login of the active and of the inactive local account with
\* their password
SessionLogin == LoginFrom({"alice@x.io", "idle@x.io"}, {"right"})

\* auth_service.get_session_by_token(token)
GetSessionCall ==
    /\ \E token \in TokenInputs :
         LET found == GetSessionByToken(user_sessions, token, now) IN
         auth_ret' = [op |-> "get_session_by_token", token |-> token, at |-> now,
                      returned |-> {user_sessions[i] : i \in found}]
    /\ UNCHANGED <<now, rateVars, users, user_sessions, login_ret, tokens_issued>>
    /\ UNCHANGED <<engineVars, routeVars, lobbyVars>>

\* auth_service.revoke_session(token)
RevokeSessionCall ==
    /\ \E token \in TokenInputs :
         LET r == RevokeSession(user_sessions, token) IN
         /\ user_sessions' = r.table
         /\ auth_ret' = [op |-> "revoke_session", token |-> token, at |-> now,
                         returned |-> r.revoked]
    /\ UNCHANGED <<now, rateVars, users, login_ret, tokens_issued>>
    /\ UNCHANGED <<engineVars, routeVars, lobbyVars>>

SessionNext == DayPasses \/ SessionLogin \/ GetSessionCall \/ RevokeSessionCall
SessionSpec == SessionInit /\ [][SessionNext]_vars

\* ------------------------------------------------ login sessions: routes
\* the Authorization headers and the session_token cookies of the requests
BearerInputs == {NoBearer, [user_id |-> "alice@x.io", valid |-> TRUE],
                 [user_id |-> "idle@x.io", valid |-> TRUE]}
CookieInputs == {NoCookie} \cup TokenInputs

\* POST /auth/logout: the session of the cookie is revoked when the request
\* resolves a current user; both cookies are deleted in the response, a
\* redirect to / or the logged-out fragment
Logout ==
    /\ \E credentials \in BearerInputs, token \in CookieInputs, is_hx \in BOOLEAN :
         LET cu == GetCurrentUser(users, user_sessions, credentials, token, now)
             r == IF cu.user # {} /\ token # NoCookie
                  THEN RevokeSession(cu.rows, token)
                  ELSE [revoked |-> FALSE, table |-> cu.rows]
         IN  /\ user_sessions' = r.table
             /\ auth_ret' = [op |-> "logout", token |-> token, at |-> now,
                             credentials |-> credentials,
                             status |-> IF is_hx THEN 200 ELSE 303,
                             deleted_cookies |-> SessionCookies]
    /\ UNCHANGED <<now, rateVars, users, login_ret, tokens_issued>>
    /\ UNCHANGED <<engineVars, routeVars, lobbyVars>>

\* GET /auth/me: the current user, or 401 without one
Me ==
    /\ \E credentials \in BearerInputs, token \in CookieInputs :
         LET cu == GetCurrentUser(users, user_sessions, credentials, token, now) IN
         /\ user_sessions' = cu.rows
         /\ auth_ret' = [op |-> "me", token |-> token, at |-> now,
                         credentials |-> credentials,
                         status |-> IF cu.user = {} THEN 401 ELSE 200,
                         user |-> cu.user]
    /\ UNCHANGED <<now, rateVars, users, login_ret, tokens_issued>>
    /\ UNCHANGED <<engineVars, routeVars, lobbyVars>>

\* the auth routes that use the login sessions, over the same start
AuthRouteNext == DayPasses \/ SessionLogin \/ Logout \/ Me
AuthRouteSpec == SessionInit /\ [][AuthRouteNext]_vars

\* the body of POST /auth/refresh for one session_token cookie: 401 without a
\* cookie, without an unexpired session, or without an active user; otherwise
\* an access token for the user and the session's last_activity set to now
RefreshTokenAnyUser(table, rows, token, at) ==
    LET found == IF token = NoCookie THEN {} ELSE GetSessionByToken(rows, token, at)
        user == UNION {GetUserById(table, rows[i].user_id) : i \in found}
    IN  IF user = {}
        THEN [status |-> 401, access_token |-> {}, rows |-> rows]
        ELSE [status |-> 200, access_token |-> user,
              rows |-> [i \in 1..Len(rows) |->
                           IF i \in found THEN [rows[i] EXCEPT !.last_activity = at]
                           ELSE rows[i]]]

RefreshToken(table, rows, token, at) ==
    LET found == IF token = NoCookie THEN {} ELSE GetSessionByToken(rows, token, at)
        user == UNION {GetUserById(table, rows[i].user_id) : i \in found}
    IN  IF found = {} \/ user = {} \/ \E u \in user : ~table[u].is_active
        THEN [status |-> 401, access_token |-> {}, rows |-> rows]
        ELSE [status |-> 200, access_token |-> user,
              rows |-> [i \in 1..Len(rows) |->
                           IF i \in found THEN [rows[i] EXCEPT !.last_activity = at]
                           ELSE rows[i]]]

\* POST /auth/refresh
Refresh ==
    /\ \E token \in CookieInputs :
         LET r == RefreshToken(users, user_sessions, token, now) IN
         /\ user_sessions' = r.rows
         /\ auth_ret' = [op |-> "refresh", token |-> token, at |-> now,
                         status |-> r.status, access_token |-> r.access_token]
    /\ UNCHANGED <<now, rateVars, users, login_ret, tokens_issued>>
    /\ UNCHANGED <<engineVars, routeVars, lobbyVars>>

RefreshNext == DayPasses \/ SessionLogin \/ Refresh
RefreshSpec == SessionInit /\ [][RefreshNext]_vars

\* ------------------------------------------------ statistics of a game
\* Game(size) as constructed (no fleet yet) or Game.new(size)
StatsInit ==
    /\ \E n \in SizeInputs : \E p \in EngineFleets[ClampSize(n)] \cup {<<>>} :
           game = MkGame(ClampSize(n), p)
    /\ result = NoResult
    /\ shot = <<>>
    /\ wins = 0
    /\ placing = NoPlacing
    /\ user_games = NoUserGames
    /\ guest_game = NoGame
    /\ RoutesIdle
    /\ LobbyIdle
    /\ AuthIdle

\* game.get_stats(): the dict it returns
GetStatsCall ==
    /\ result' = GetStats(game)
    /\ UNCHANGED <<game, shot, wins, placing, storedGames>>
    /\ UNCHANGED <<routeVars, lobbyVars, authVars>>

StatsNext == FireShot \/ Reset \/ GetStatsCall
StatsSpec == StatsInit /\ [][StatsNext]_vars

\* ------------------------------------------------ one client, either flow
\* a client that plays the /new, /make-move flow or the /ai/start, /ai/shot
\* flow, its requests handled one at a time
NoGameSession == \A k \in SessionKeys : sessions[k] = NoSession
NoLobbySession == \A k \in LobbyKeys : ai_sessions[k] = NoSession

FlowsInit == GameInit \/ LobbyInit

FlowNewGame == NoLobbySession /\ NewGame
FlowResetGame == NoLobbySession /\ ResetGame
FlowMakeMove == NoLobbySession /\ MakeMove
\* require_authenticated_user: the lobby serves signed-in users only
SignedIn == \A cl \in clients : cl[1] \in LobbyUsers
FlowStartGame == NoGameSession /\ SignedIn /\ StartGame
FlowAiShot == NoGameSession /\ SignedIn /\ AiShot

FlowsNext == FlowNewGame \/ FlowResetGame \/ FlowMakeMove \/ FlowStartGame \/ FlowAiShot
FlowsSpec == FlowsInit /\ [][FlowsNext]_vars

\* ------------------------------------------------ the expert opponent alone
\* an AiOpponent(game) asked for expert moves, each fired at its game
ExpertShot ==
    /\ Cardinality(game.hits \cup game.misses) < MaxExpertShots
    /\ \E mv \in GetBestMove(game, "expert") :
         LET r == Fire(game, mv) IN
         /\ game' = r.game
         /\ result' = r.result
         /\ shot' = mv
         /\ wins' = IF Get(r.result, "won") THEN wins + 1 ELSE wins
         /\ UNCHANGED <<placing, storedGames>>
    /\ UNCHANGED <<routeVars, lobbyVars, authVars>>

ExpertNext == ExpertShot
ExpertSpec == EngineInit /\ [][ExpertNext]_vars

\* AiOpponent(game)._remaining_ship_sizes() on the game as the shots left it
RemainingShipSizesCall ==
    /\ result' = [remaining |-> RemainingShipSizes(game)]
    /\ UNCHANGED <<game, shot, wins, placing, storedGames>>
    /\ UNCHANGED <<routeVars, lobbyVars, authVars>>

SizesNext == FireShot \/ Reset \/ RemainingShipSizesCall
SizesSpec == EngineInit /\ [][SizesNext]_vars

\* ------------------------------------------------ scores of finished games
\* a finished game on a board of the given size: every ship cell hit and the
\* first m other cells missed
FinishedGame(size, m) ==
    LET p == CHOOSE f \in RouteFleets[size] : TRUE
        g == MkGame(size, p)
        water == SelectSeq(AllCells(size), LAMBDA c : c \notin g.ships)
    IN  [g EXCEPT !.hits = g.ships, !.misses = {water[i] : i \in 1..m}]

ScoreBoardSizes == {6, 8, 10}

ScoreInit ==
    /\ EngineIdle
    /\ RoutesIdle
    /\ LobbyIdle
    /\ AuthIdle

\* save_game_score(user_id, game.get_stats(), score_service) for a game that
\* has just been won
SaveFinishedGame ==
    /\ Len(scores) < MaxScores
    /\ \E user \in Users, size \in ScoreBoardSizes :
       \E m \in 0..(size * size - Cardinality(FinishedGame(size, 0).ships)) :
         /\ game' = FinishedGame(size, m)
         /\ scores' = Append(scores, SaveGameScore(user, GetStats(FinishedGame(size, m))))
    /\ UNCHANGED <<result, shot, wins, placing, storedGames, clients, sessions, req>>
    /\ UNCHANGED <<lobbyVars, authVars>>

ScoreNext == SaveFinishedGame
ScoreSpec == ScoreInit /\ [][ScoreNext]_vars

\* ----------------------------------------------------------------- claims
RECURSIVE SumCard(_)
SumCard(placed) ==
    IF placed = <<>> THEN 0 ELSE Cardinality(Head(placed)) + SumCard(Tail(placed))

\* C1: Game.fire on a coordinate already in hits or in misses returns
\* {"repeat": True} and leaves ships, hits and misses unchanged, whether the
\* earlier shot there was a hit or a miss.
C1_RepeatLeavesGame ==
    [][(result' # NoResult /\ shot' \in (game.hits \cup game.misses))
         => (/\ result' = [repeat |-> TRUE]
             /\ game'.ships = game.ships
             /\ game'.hits = game.hits
             /\ game'.misses = game.misses)]_vars

C1_Witness ==
    /\ result = [repeat |-> TRUE]
    /\ shot \in game.misses
    /\ game.hits # {}

\* C2: after any sequence of fire and reset calls the hit set and the miss
\* set are disjoint, every hit is a ship cell and no miss is a ship cell.
C2_HitsMissesShips ==
    /\ game.hits \cap game.misses = {}
    /\ game.hits \subseteq game.ships
    /\ game.misses \cap game.ships = {}

C2_Witness ==
    /\ game.hits # {}
    /\ game.misses # {}
    /\ result = [repeat |-> TRUE]

C4_WonExactlyOnLastHit ==
    [][result' # NoResult
         => (/\ Get(result', "won")
                  <=> (/\ shot' \notin (game.hits \cup game.misses)
                       /\ shot' \in game.ships
                       /\ game'.ships \subseteq game'.hits)
             /\ Get(result', "won") => wins = 0)]_vars

C4_Witness ==
    /\ wins = 1
    /\ Get(result, "won")
    /\ game.ships \subseteq game.hits

\* the session a game-route request was served from, before and after it;
\* a session that get_user_session had to create starts without shots
ReqKey(r) == SessionKey(r.user, r.tier)
Shots(g) == g.hits \cup g.misses
ShotsBefore(sess, side) ==
    IF sess = NoSession THEN {}
    ELSE IF side = "player" THEN Shots(sess.player_target) ELSE Shots(sess.ai_target)
IsOver(sess) == sess # NoSession /\ (PlayerWon(sess) \/ AiWon(sess))

\* C5: in one POST /make-move on a game that is not over, with coordinates
\* on the board, the opponent fires exactly one shot at the human's board
\* (one new cell in its hits or misses) if and only if the player's shot was
\* neither a repeat nor the winning shot; otherwise the human's board is
\* left as it was.
C5_OneReplyPerNewShot ==
    [][(req'.op = "make-move" /\ req'.onboard /\ ~IsOver(sessions[ReqKey(req')]))
         => LET pre == sessions[ReqKey(req')]
                post == sessions'[ReqKey(req')]
                new_shot == Shots(post.player_target) # ShotsBefore(pre, "player")
                winning == PlayerWon(post)
            IN  IF new_shot /\ ~winning
                THEN /\ Len(req'.ai_moves) = 1
                     /\ ShotsBefore(pre, "ai") \subseteq Shots(post.ai_target)
                     /\ Cardinality(Shots(post.ai_target))
                          = Cardinality(ShotsBefore(pre, "ai")) + 1
                     /\ Shots(post.ai_target) \ ShotsBefore(pre, "ai") = {req'.ai_moves[1]}
                     /\ pre # NoSession => post.ai_target.ships = pre.ai_target.ships
                ELSE /\ req'.ai_moves = <<>>
                     /\ Shots(post.ai_target) = ShotsBefore(pre, "ai")
                     /\ pre # NoSession => post.ai_target = pre.ai_target]_vars

\* a winning shot of the player after the opponent has already shot back
C5_Witness ==
    /\ req.op = "make-move"
    /\ Get(req.presult, "won")
    /\ req.ai_moves = <<>>
    /\ Shots(sessions[ReqKey(req)].ai_target) # {}

\* C6: POST /make-move on a game that is already over, or with x or y
\* outside 0..size-1, changes neither board, does not ask the opponent for a
\* move and persists no score.
C6_RejectedMoveChangesNothing ==
    [][(req'.op = "make-move" /\ (~req'.onboard \/ IsOver(sessions[ReqKey(req')])))
         => LET pre == sessions[ReqKey(req')]
                post == sessions'[ReqKey(req')]
            IN  /\ IF pre = NoSession
                   THEN Shots(post.player_target) = {} /\ Shots(post.ai_target) = {}
                   ELSE /\ post.player_target = pre.player_target
                        /\ post.ai_target = pre.ai_target
                /\ req'.ai_moves = <<>>
                /\ scores' = scores]_vars

\* coordinates off the board sent to a game the opponent has won
C6_Witness ==
    /\ req.op = "make-move"
    /\ ~req.onboard
    /\ AiWon(sessions[ReqKey(req)])
    /\ scores = <<>>

LobbyKey(r) == <<r.user, r.tier>>

\* C8: when a signed-in player wins a match in the AI lobby (the POST
\* /ai/shot call whose shot hits the last enemy ship cell), exactly one score
\* row is created for that player for that match.
C8_LobbyWinCreatesScore ==
    [][(/\ req'.op = "ai/shot"
        /\ ai_sessions[LobbyKey(req')] # NoSession
        /\ ai_sessions[LobbyKey(req')].turn = "player"
        /\ AllHit(ai_sessions'[LobbyKey(req')].player_game))
         => (/\ Len(scores') = Len(scores) + 1
             /\ scores'[Len(scores')].user_id = req'.user)]_vars

\* C9: in a POST /ai/shot call made on the player's turn the opponent is
\* asked for exactly one move, which is applied to the player's fleet board
\* and fed back through update_game_state, if and only if the player's shot
\* was neither a repeat nor the winning shot; after a repeat the turn stays
\* player and the opponent and the player's fleet board are unchanged; after
\* the winning shot the turn is game_over and there is no reply.
C9_OneAppliedReplyPerNewShot ==
    [][(/\ req'.op = "ai/shot"
        /\ ai_sessions[LobbyKey(req')] # NoSession
        /\ ai_sessions[LobbyKey(req')].turn = "player")
         => LET pre == ai_sessions[LobbyKey(req')]
                post == ai_sessions'[LobbyKey(req')]
                new_shot == Shots(post.player_game) # Shots(pre.player_game)
                winning == AllHit(post.player_game)
                c == post.last_ai_move
            IN  /\ req'.asked = (IF new_shot /\ ~winning THEN 1 ELSE 0)
                /\ (new_shot /\ ~winning) =>
                      /\ c # <<>>
                      /\ post.ai_game = Fire(pre.ai_game, c).game
                      /\ post.ai_opponent.previous_moves
                           = Append(pre.ai_opponent.previous_moves, c)
                /\ ~new_shot =>
                      /\ post.turn = "player"
                      /\ post.ai_opponent = pre.ai_opponent
                      /\ post.ai_game = pre.ai_game
                /\ winning =>
                      /\ post.turn = "game_over"
                      /\ post.ai_opponent = pre.ai_opponent
                      /\ post.ai_game = pre.ai_game
                      /\ post.last_ai_move = pre.last_ai_move]_vars

\* C10: a POST /ai/shot call on a session whose turn is not player changes
\* nothing in that session (boards, opponent's memory, turn, last AI move);
\* game_over is absorbing: a session that is over changes only by being
\* replaced by a new /ai/start.
C10_NotPlayersTurnChangesNothing ==
    [][\A k \in LobbyKeys :
          (/\ ai_sessions[k] # NoSession
           /\ ai_sessions[k].turn # "player"
           /\ ai_sessions'[k] # ai_sessions[k])
            => (/\ req'.op = "ai/start"
                /\ ai_sessions'[k].turn = "player"
                /\ Shots(ai_sessions'[k].player_game) = {}
                /\ Shots(ai_sessions'[k].ai_game) = {}
                /\ ai_sessions'[k].ai_opponent.previous_moves = <<>>)]_vars

\* a shot sent to a match the opponent has won
C10_Witness ==
    /\ req.op = "ai/shot"
    /\ req.status = "ok"
    /\ ai_sessions[LobbyKey(req)].turn = "game_over"
    /\ AllHit(ai_sessions[LobbyKey(req)].ai_game)
    /\ req.presult = NoResult

\* C11: for every tier, the language-model tier included, whenever no lobby
\* request is in progress a session's turn is player or game_over (never
\* left at ai), and it is game_over exactly when one of the two fleets is
\* fully hit.
C11_TurnNeverLeftAtAi ==
    \A k \in LobbyKeys :
        ai_sessions[k] # NoSession =>
            /\ ai_sessions[k].turn \in {"player", "game_over"}
            /\ ai_sessions[k].turn = "game_over"
                 <=> (AllHit(ai_sessions[k].player_game) \/ AllHit(ai_sessions[k].ai_game))

\* C12: out-of-range coordinates sent to POST /ai/shot are not recorded in
\* hits or misses (and trigger no reply and no server error), so every
\* coordinate recorded on a board of the AI lobby lies within 0..size-1.
C12_LobbyShotsOnBoard ==
    \A k \in LobbyKeys :
        ai_sessions[k] # NoSession =>
            /\ \A c \in Shots(ai_sessions[k].player_game) :
                   OnBoard(c, ai_sessions[k].player_game.size)
            /\ \A c \in Shots(ai_sessions[k].ai_game) :
                   OnBoard(c, ai_sessions[k].ai_game.size)

\* C13: POST /ai/start for a recognised tier stores, under (user id, tier),
\* a session with two freshly placed boards of the tier's size (rookie 6,
\* veteran 8, admiral 10, psy-ops 8), no shots on either board, turn =
\* player and no last AI move, replacing whatever was stored under the key.
C13_StartStoresFreshSession ==
    [][req'.op = "ai/start"
         => LET recognised == req'.tier \in {"rookie", "veteran", "admiral", "psy-ops"}
                size == CASE req'.tier = "rookie" -> 6
                          [] req'.tier = "veteran" -> 8
                          [] req'.tier = "admiral" -> 10
                          [] OTHER -> 8
                post == ai_sessions'[LobbyKey(req')]
                fresh(g) == /\ g.size = size
                            /\ Shots(g) = {}
                            /\ g.ships # {}
                            /\ \A c \in g.ships : OnBoard(c, size)
            IN  recognised =>
                  /\ req'.status = "ok"
                  /\ post # NoSession
                  /\ fresh(post.player_game)
                  /\ fresh(post.ai_game)
                  /\ post.turn = "player"
                  /\ post.last_ai_move = <<>>
                  /\ post.ai_opponent.previous_moves = <<>>
                  /\ post.ai_opponent.size = size
                  /\ \A k \in LobbyKeys \ {LobbyKey(req')} :
                         ai_sessions'[k] = ai_sessions[k]]_vars

\* a veteran match stored by /ai/start
C13_Witness ==
    /\ req.op = "ai/start"
    /\ req.status = "ok"
    /\ req.tier = "veteran"
    /\ ai_sessions[LobbyKey(req)].player_game.size = 8
    /\ ai_sessions[LobbyKey(req)].turn = "player"

\* C14: POST /ai/start with an unrecognised tier and POST /ai/shot for a
\* (user, tier) without a stored session both fail with a not-found error
\* and leave the session store as it was.
C14_NotFoundLeavesStore ==
    [][(\/ /\ req'.op = "ai/start"
           /\ req'.tier \notin {"rookie", "veteran", "admiral", "psy-ops"}
        \/ /\ req'.op = "ai/shot"
           /\ ai_sessions[LobbyKey(req')] = NoSession)
         => (req'.status = "404" /\ ai_sessions' = ai_sessions)]_vars

\* a shot for a tier that was never started
C14_Witness ==
    /\ req.op = "ai/shot"
    /\ req.status = "404"
    /\ ai_sessions[LobbyKey(req)] = NoSession

\* C15: lobby sessions of different users are isolated: a /ai/start or
\* /ai/shot request of one user changes no session of another user, and
\* what it does to the user's own session is decided by that session alone
\* (none gives the 404, whatever the other user has stored), also when both
\* play the same tier.
C15_LobbyUsersIsolated ==
    [][req'.op \in {"ai/start", "ai/shot"}
         => LET own == LobbyKey(req')
                pre == ai_sessions[own]
                post == ai_sessions'[own]
            IN  /\ \A k \in LobbyKeys : k[1] # req'.user => ai_sessions'[k] = ai_sessions[k]
                /\ req'.op = "ai/start" =>
                      post \in NewLobbySessions(req'.tier, api_key)
                /\ (req'.op = "ai/shot" /\ pre = NoSession) =>
                      (req'.status = "404" /\ post = NoSession)
                /\ (req'.op = "ai/shot" /\ pre # NoSession) =>
                      \E xy \in PairShotInputs :
                          [sess |-> post, req |-> req']
                              \in PlayerShot(pre, req'.user, req'.tier, xy)]_vars

\* both users are in a match of the same tier; u1 has just shot, u2 has a
\* match in progress
C15_Witness ==
    /\ req.op = "ai/shot"
    /\ req.user = "u1"
    /\ req.status = "ok"
    /\ \E t \in PairTiers :
          /\ req.tier = t
          /\ ai_sessions[<<"u1", t>>] # NoSession
          /\ ai_sessions[<<"u2", t>>] # NoSession
          /\ Shots(ai_sessions[<<"u2", t>>].player_game) # {}
          /\ Shots(ai_sessions[<<"u1", t>>].player_game)
               # Shots(ai_sessions[<<"u2", t>>].player_game)

\* C16: a /new, /reset or /make-move request changes only the session keyed
\* by its own (user id or "guest", tier) and leaves the boards and the log
\* of every other key as they were; every caller without a login acts on
\* the one "guest" session of the tier, so a guest's /new discards the game
\* in progress there and a guest's /make-move continues it.
C16_OnlyOwnKeyChanges ==
    [][req'.op \in {"new", "reset", "make-move"}
         => LET own == <<IF req'.user = NoUser THEN "guest" ELSE req'.user, req'.tier>>
                pre == sessions[own]
                post == sessions'[own]
            IN  /\ \A k \in SessionKeys \ {own} : sessions'[k] = sessions[k]
                /\ post # NoSession
                /\ req'.op \in {"new", "reset"} =>
                      /\ Shots(post.player_target) = {}
                      /\ Shots(post.ai_target) = {}
                /\ (req'.op = "make-move" /\ pre # NoSession) =>
                      /\ post.player_target.ships = pre.player_target.ships
                      /\ post.ai_target.ships = pre.ai_target.ships
                      /\ Shots(pre.player_target) \subseteq Shots(post.player_target)
                      /\ Shots(pre.ai_target) \subseteq Shots(post.ai_target)]_vars

\* a guest's /new has replaced the guests' rookie game while the signed-in
\* user's rookie game is in progress
C16_Witness ==
    /\ req.op = "new"
    /\ req.user = NoUser
    /\ sessions[<<"guest", "rookie">>] # NoSession
    /\ Shots(sessions[<<"guest", "rookie">>].player_target) = {}
    /\ sessions[<<"u1", "rookie">>] # NoSession
    /\ Shots(sessions[<<"u1", "rookie">>].player_target) # {}
    /\ sessions[<<"u1", "rookie">>].log # <<>>

\* C17: after POST /new or POST /reset the caller's session holds two
\* freshly placed boards of the standard size without shots, and its log,
\* cleared, holds the initialisation narration line as its only entry.
C17_NewGameLogsInitLine ==
    [][req'.op \in {"new", "reset"}
         => LET post == sessions'[ReqKey(req')]
            IN  /\ post.player_target.size = STANDARD_BOARD_SIZE
                /\ post.ai_target.size = STANDARD_BOARD_SIZE
                /\ post.player_target.ships # {}
                /\ post.ai_target.ships # {}
                /\ Shots(post.player_target) = {}
                /\ Shots(post.ai_target) = {}
                /\ Len(post.log) = 1
                /\ post.log[1] = <<"INITIALIZED">>]_vars

\* C18: after any sequence of /new and /make-move requests a session's log
\* never holds more than 5 entries and is, in order, the most recent (at
\* most 5) narrations appended since the last /new; calls on a finished
\* game and calls with coordinates off the board append nothing.
C18_RollingLog ==
    [][req'.op \in {"new", "reset", "make-move"}
         => LET pre == sessions[ReqKey(req')]
                post == sessions'[ReqKey(req')]
                before == IF pre = NoSession THEN <<>> ELSE pre.log
                all == Append(before, post.log[Len(post.log)])
            IN  /\ Len(post.log) <= 5
                /\ req'.op \in {"new", "reset"} => post.log = <<>>
                /\ (req'.op = "make-move" /\ (IsOver(pre) \/ ~req'.onboard)) =>
                      post.log = before
                /\ (req'.op = "make-move" /\ ~IsOver(pre) /\ req'.onboard) =>
                      /\ post.log # <<>>
                      /\ post.log[Len(post.log)] # <<>>
                      /\ post.log = IF Len(all) > 5
                                    THEN SubSeq(all, Len(all) - 4, Len(all))
                                    ELSE all]_vars

\* five entries, the narration of the game's first shot already dropped
C18_Witness ==
    /\ req.op = "make-move"
    /\ req.outcome = "played"
    /\ Len(sessions[ReqKey(req)].log) = 5
    /\ sessions[ReqKey(req)].log[1] = <<"REPEAT">>

\* the allowed calls of a key that are younger than the window at a time
YoungAllowed(key, at) ==
    {i \in 1..Len(rate_history[key].allowed) :
        at - rate_history[key].allowed[i] < rate_cfg.window}

\* C19: with rate limiting enabled, a call for a key is allowed exactly when
\* fewer than `limit` earlier allowed calls for that key are younger than
\* the window; a denied call adds no timestamp to the bucket, an allowed one
\* adds its own, and no bucket ever holds more than `limit` timestamps (so
\* the caller is allowed again as soon as enough recorded calls aged out)
C19_AllowedIffUnderLimit ==
    [][now' = now =>
         LET key == rate_ret'.key
             young == Cardinality(YoungAllowed(key, now))
         IN  /\ rate_ret'.allowed <=> young < rate_cfg.limit
             /\ ~rate_ret'.allowed =>
                    rate_limit_store'[key] =
                       Younger(rate_limit_store[key], now, rate_cfg.window)
             /\ rate_ret'.allowed =>
                    rate_limit_store'[key] =
                       Append(Younger(rate_limit_store[key], now, rate_cfg.window), now)
             /\ \A k \in RateKeys : Len(rate_limit_store'[k]) <= rate_cfg.limit
             /\ \A k \in RateKeys \ {key} : rate_limit_store'[k] = rate_limit_store[k]
    ]_vars

\* a key that was denied at its limit and is allowed again after its
\* recorded calls aged out
C19_Witness ==
    /\ rate_ret.key \in RateKeys
    /\ rate_ret.allowed
    /\ rate_history[rate_ret.key].denied >= 0
    /\ rate_history[rate_ret.key].denied < rate_ret.at
    /\ Len(rate_history[rate_ret.key].allowed) > rate_cfg.limit

\* why an attempt with these form fields fails, from the users table:
\* "none" when the credentials are those of an active local account
LoginCause(table, email, password) ==
    LET e == Lower(Strip(email)) IN
    IF ~WellFormed(e) THEN "malformed email"
    ELSE IF e \notin DOMAIN table THEN "unknown email"
    ELSE IF ~table[e].is_active THEN "inactive account"
    ELSE IF table[e].password_hash = NoHash THEN "no password hash"
    ELSE IF table[e].password_hash # HashPassword(password) THEN "wrong password"
    ELSE "none"

\* C20: every login attempt that passes the rate limit and fails for one of
\* the five causes (malformed email, unknown email, inactive account, account
\* without a password hash, wrong password) gets the one response ok = false,
\* "Invalid email or password." without cookies, adds no session row and
\* leaves every last_login as it was; so any two of them are alike
C20_FailedLoginsAlike ==
    [][(/\ now' = now
        /\ rate_ret'.allowed
        /\ LoginCause(users, login_ret'.email, login_ret'.password) # "none")
       => /\ login_ret'.response = InvalidCredentials
          /\ login_ret'.response.cookies = {}
          /\ user_sessions' = user_sessions
          /\ users' = users
    ]_vars

\* an attempt on the inactive account with its right password is answered
\* like the others, after an earlier login of another account succeeded
C20_Witness ==
    /\ login_ret.email = "idle@x.io"
    /\ login_ret.password = "right"
    /\ login_ret.response = InvalidCredentials
    /\ rate_ret.allowed
    /\ Len(user_sessions) = 1
    /\ users["alice@x.io"].last_login # NoLogin

\* the conditions under which a registration attempt may create a user
MayRegister(table, email, password, confirm_password) ==
    /\ WellFormed(Lower(Strip(email)))
    /\ password = confirm_password
    /\ ValidatePasswordStrength(password) = <<>>
    /\ Lower(Strip(email)) \notin DOMAIN table

\* C21: after any sequence of registration attempts there is at most one
\* user per trimmed, lower-cased email; an attempt creates a user only when
\* the email is well formed, the passwords are equal and strong and no user
\* has the email; every attempt that is answered as failed leaves the users
\* table unchanged.
C21_FailedRegistrationChangesNothing ==
    [][auth_ret'.op = "register" =>
         /\ \A e1 \in DOMAIN users', e2 \in DOMAIN users' :
               Lower(Strip(e1)) = Lower(Strip(e2)) => e1 = e2
         /\ users' # users =>
               MayRegister(users, auth_ret'.email, auth_ret'.password,
                           auth_ret'.confirm_password)
         /\ ~auth_ret'.response.ok => users' = users
    ]_vars

\* the rows of the sessions table with a token
RowsWithToken(table, token) == {i \in 1..Len(table) : table[i].session_token = token}

\* a step that is a call of the auth service with this name
ServiceCall(name) ==
    /\ auth_ret'.op = name
    /\ auth_ret'.at = now
    /\ UNCHANGED <<now, rateVars, login_ret, tokens_issued>>

\* what a get_session_by_token step must do
LookupContract ==
    LET t == auth_ret'.token IN
    /\ auth_ret'.returned # {} <=>
          (\E i \in RowsWithToken(user_sessions, t) : user_sessions[i].expires_at > now)
    /\ \A row \in auth_ret'.returned :
          (row.session_token = t /\ row.expires_at > now)
    /\ user_sessions' = user_sessions

\* what a revoke_session step must do
RevokeContract ==
    LET t == auth_ret'.token IN
    /\ auth_ret'.returned <=> (RowsWithToken(user_sessions, t) # {})
    /\ (~auth_ret'.returned) => (user_sessions' = user_sessions /\ users' = users)
    /\ auth_ret'.returned =>
          (/\ RowsWithToken(user_sessions', t) = {}
           /\ Len(user_sessions') = Len(user_sessions) - 1)

\* C22: get_session_by_token(t) returns a session exactly when a row with
\* token t exists whose expires_at is strictly later than the current time,
\* and it returns such a row; revoke_session(t) returns true exactly when a
\* row with token t exists, which it deletes, and changes nothing when there
\* is none; once revoke_session(t) has returned true, get_session_by_token(t)
\* returns nothing in every later state.
C22_SessionLookupAndRevoke ==
    /\ [][(ServiceCall("get_session_by_token") => LookupContract)
          /\ (ServiceCall("revoke_session") => RevokeContract)]_vars
    /\ \A token \in TokenInputs :
         []((auth_ret.op = "revoke_session" /\ auth_ret.token = token /\ auth_ret.returned)
              => [](GetSessionByToken(user_sessions, token, now) = {}))

\* the session of a login was revoked while the older session of the
\* inactive account, expired since a day passed, is still stored and is
\* not returned any more
C22_Witness ==
    /\ auth_ret.op = "revoke_session"
    /\ auth_ret.returned
    /\ auth_ret.token >= 1
    /\ RowsWithToken(user_sessions, 0) # {}
    /\ now = DaySeconds
    /\ GetSessionByToken(user_sessions, 0, now) = {}

\* the user a session token alone resolves, now
ResolvedBy(token) == GetCurrentUser(users, user_sessions, NoBearer, token, now).user

\* what a POST /auth/logout step must do
LogoutContract ==
    LET t == auth_ret'.token IN
    /\ (RowsWithToken(user_sessions, t) # {}) => (RowsWithToken(user_sessions', t) = {})
    /\ auth_ret'.deleted_cookies = {"session_token", "access_token"}
    /\ GetCurrentUser(users', user_sessions', NoBearer, t, now').user = {}

\* C23: POST /auth/logout deletes the session row matching the request's
\* session_token cookie whenever such a row exists and always clears the
\* session_token and access_token cookies; right after the logout the
\* session token resolves no user, a token that resolves no user never
\* resolves one later, and GET /auth/me with a session token alone answers
\* 200 only when the token resolves a user (401 otherwise).
C23_LogoutDeletesSessionRow ==
    [][/\ (ServiceCall("logout") => LogoutContract)
       /\ ((ServiceCall("me") /\ auth_ret'.credentials = NoBearer
               /\ auth_ret'.status = 200)
            => (ResolvedBy(auth_ret'.token) # {}))
       /\ (\A token \in 0..tokens_issued :
              (ResolvedBy(token) = {}) => (ResolvedBy(token)' = {}))]_vars

\* C24: POST /auth/refresh answers 200 exactly when the session_token cookie
\* names a stored session whose expires_at is later than now and whose user
\* exists and is active; then the response carries an access token for that
\* user and the only change is that session's last_activity, set to now (its
\* expires_at and every other row and user stay as they were); otherwise it
\* answers 401 with no access token and changes nothing.
RefreshContract ==
    LET t == auth_ret'.token
        live == {i \in RowsWithToken(user_sessions, t) :
                    /\ user_sessions[i].expires_at > now
                    /\ user_sessions[i].user_id \in DOMAIN users
                    /\ users[user_sessions[i].user_id].is_active}
    IN  /\ (auth_ret'.status = 200) <=> (t # NoCookie /\ live # {})
        /\ auth_ret'.status \in {200, 401}
        /\ users' = users
        /\ Len(user_sessions') = Len(user_sessions)
        /\ (auth_ret'.status = 200) =>
              /\ \A i \in 1..Len(user_sessions) :
                    /\ user_sessions'[i].expires_at = user_sessions[i].expires_at
                    /\ i \notin live => user_sessions'[i] = user_sessions[i]
                    /\ i \in live =>
                         user_sessions'[i] = [user_sessions[i] EXCEPT !.last_activity = now]
              /\ auth_ret'.access_token = {user_sessions[i].user_id : i \in live}
        /\ (auth_ret'.status = 401) =>
              (user_sessions' = user_sessions /\ auth_ret'.access_token = {})

C24_RefreshOnlyTouchesActivity ==
    [][ServiceCall("refresh") => RefreshContract]_vars

\* a session refreshed a day after its login: alive, last_activity moved to
\* now, expires_at still the one set at login
C24_Witness ==
    /\ auth_ret.op = "refresh"
    /\ auth_ret.status = 200
    /\ now = DaySeconds
    /\ \E i \in RowsWithToken(user_sessions, auth_ret.token) :
         /\ user_sessions[i].last_activity = now
         /\ user_sessions[i].expires_at = SessionExpiry(TRUE)

\* C25: whenever POST /ai/shot asks the language-model opponent for a move,
\* make_move returns a move (the request is answered, never ended by an
\* exception of the external call) and the returned move becomes the
\* session's last AI move.
C25_LlmMoveNeverRaises ==
    [][(/\ req'.op = "ai/shot"
        /\ req'.asked = 1
        /\ ai_sessions[LobbyKey(req')].ai_opponent.kind = "llm")
         => (/\ req'.status = "ok"
             /\ ai_sessions'[LobbyKey(req')].last_ai_move # <<>>
             /\ Len(ai_sessions'[LobbyKey(req')].ai_opponent.previous_moves)
                  = Len(ai_sessions[LobbyKey(req')].ai_opponent.previous_moves) + 1)]_vars

\* C26: every move the language-model opponent returns (parsed from the
\* completion or taken from the fallback chain) is a cell of the board, and
\* while the opponent has an unplayed cell left it is a cell the opponent has
\* not played before.
C26_LlmMoveOnBoardAndUnplayed ==
    [][(/\ req'.op = "ai/shot"
        /\ req'.asked = 1
        /\ req'.status = "ok"
        /\ ai_sessions[LobbyKey(req')].ai_opponent.kind = "llm")
         => LET pre == ai_sessions[LobbyKey(req')].ai_opponent
                c == ai_sessions'[LobbyKey(req')].last_ai_move
            IN  /\ OnBoard(c, pre.size)
                /\ (Available(pre) # <<>>) => (c \notin SeqToSet(pre.previous_moves))]_vars

\* round(v / 10) for v in tenths, ties to even as Python's round
RoundTenths(v) ==
    LET q == v \div 10
        r == v % 10
    IN  IF r > 5 THEN q + 1
        ELSE IF r < 5 THEN q
        ELSE IF q % 2 = 0 THEN q ELSE q + 1

\* C27: the score stored for a finished game is
\* max(0, 1000 - 10 x shots_fired + round(2 x accuracy) + 5 x board_size),
\* accuracy being the percentage with one decimal of the statistics, and is
\* never negative.
C27_FinalScoreFormula ==
    \A i \in 1..Len(scores) :
        /\ scores[i].score
             = Max(0, 1000 - 10 * scores[i].shots_fired
                        + RoundTenths(2 * scores[i].accuracy10)
                        + 5 * scores[i].board_size)
        /\ scores[i].score >= 0

\* the dict of the last call was returned by get_stats (for the game as it is)
IsStats(r) == "shots_fired" \in DOMAIN r

\* a10 is a value in tenths nearest to 100 x part / whole
NearestTenth(a10, part, whole) ==
    LET d == a10 * whole - 1000 * part
    IN  2 * (IF d < 0 THEN -d ELSE d) <= whole

\* C28: after any sequence of shots get_stats reports shots_fired = |hits| +
\* |misses|, hits = |hits|, ships_remaining = |ships| - |hits| >= 0, game_over
\* exactly when ships_remaining = 0, and accuracy = hits / shots_fired x 100 to
\* the nearest tenth (0.0 before any shot, 66.7 for 2 hits in 3 shots).
C28_StatsOfShots ==
    IsStats(result) =>
        /\ result.shots_fired = Cardinality(game.hits) + Cardinality(game.misses)
        /\ result.hits = Cardinality(game.hits)
        /\ result.ships_remaining = Cardinality(game.ships) - Cardinality(game.hits)
        /\ result.ships_remaining >= 0
        /\ result.game_over <=> (result.ships_remaining = 0)
        /\ (result.shots_fired = 0) => (result.accuracy10 = 0)
        /\ (result.shots_fired > 0) =>
               NearestTenth(result.accuracy10, result.hits, result.shots_fired)
        /\ (result.hits = 2 /\ result.shots_fired = 3) => (result.accuracy10 = 667)

\* statistics read after two hits and one miss
C28_Witness ==
    /\ IsStats(result)
    /\ Cardinality(game.hits) = 2
    /\ Cardinality(game.misses) = 1
    /\ result.accuracy10 = 667

\* C29: get_stats reports percent_ships_remaining = ships_remaining / total
\* ship cells x 100 to the nearest tenth, and 100.0 when the fleet has no ship
\* cell.
C29_PercentShipsRemaining ==
    IsStats(result) =>
        /\ (result.total_ship_cells > 0) =>
               NearestTenth(result.percent_ships_remaining10,
                            result.ships_remaining, result.total_ship_cells)
        /\ (result.total_ship_cells = 0) => (result.percent_ships_remaining10 = 1000)

\* C30: the turn check of POST /ai/shot does not serialise two requests for
\* the same session: a request that has read turn = player fires its shot at
\* the player's target board whatever the turn has become since, and once both
\* requests are done the opponent has made one reply for every request whose
\* shot was new and not the winning one (two replies when both were).
C30_RacingShotsBothApplied ==
    LET sess == ai_sessions[RaceKey]
        past(r) == in_flight[r].pc \in {"reply", "done"}
        replied == {r \in Requests :
                      /\ in_flight[r].pc = "done"
                      /\ in_flight[r].turn_read = "player"
                      /\ ~Get(in_flight[r].presult, "won")
                      /\ ~Get(in_flight[r].presult, "repeat")}
    IN  /\ \A r \in Requests :
             (past(r) /\ in_flight[r].turn_read = "player")
                => (in_flight[r].xy \in Shots(sess.player_game))
        /\ (\A r \in Requests : in_flight[r].pc = "done")
              => (Len(sess.ai_opponent.previous_moves) = Cardinality(replied))

\* both requests have read turn = player and fired before either reply wrote
\* the turn back: two player shots are on the board and two replies follow
C30_Witness ==
    /\ \A r \in Requests : in_flight[r].pc = "reply" /\ in_flight[r].turn_read = "player"
    /\ in_flight[1].xy # in_flight[2].xy
    /\ Cardinality(Shots(ai_sessions[RaceKey].player_game)) = 2
    /\ ai_sessions[RaceKey].turn = "ai"

\* the untried cells of board g orthogonally adjacent to one of its hits
AdjacentToHit(g) ==
    {c \in SeqToSet(GetLegalMoves(g)) :
        \E h \in g.hits : \E d \in {<<1, 0>>, <<-1, 0>>, <<0, 1>>, <<0, -1>>} :
            c = <<h[1] + d[1], h[2] + d[2]>>}

\* C31: in expert difficulty get_best_move returns an untried cell
\* orthogonally adjacent to an existing hit whenever there is one, and
\* otherwise an untried cell whose aggregate placement score is the highest.
C31_ExpertHuntsNextToHits ==
    [][(game' # game)
         => LET mv == shot'
                sizes == RemainingShipSizes(game)
            IN  /\ mv \in SeqToSet(GetLegalMoves(game))
                /\ (AdjacentToHit(game) # {}) => (mv \in AdjacentToHit(game))
                /\ (AdjacentToHit(game) = {}) =>
                      (\A c \in SeqToSet(GetLegalMoves(game)) :
                          SumScores(game, sizes, c) <= SumScores(game, sizes, mv))]_vars

\* C32: with the requests of a session handled one at a time, the two
\* fleets of a session (never empty) are never both fully hit, in the
\* /make-move flow and in the /ai/shot flow alike.
C32_AtMostOneWinner ==
    /\ \A k \in SessionKeys :
          sessions[k] # NoSession =>
              /\ sessions[k].player_target.ships # {}
              /\ sessions[k].ai_target.ships # {}
              /\ ~(PlayerWon(sessions[k]) /\ AiWon(sessions[k]))
    /\ \A k \in LobbyKeys :
          ai_sessions[k] # NoSession =>
              /\ ai_sessions[k].player_game.ships # {}
              /\ ai_sessions[k].ai_game.ships # {}
              /\ ~(AllHit(ai_sessions[k].player_game) /\ AllHit(ai_sessions[k].ai_game))

\* a lobby match the opponent has won while the player was one hit short
C32_Witness ==
    \E k \in LobbyKeys :
        /\ ai_sessions[k] # NoSession
        /\ AllHit(ai_sessions[k].ai_game)
        /\ Cardinality(ai_sessions[k].player_game.ships \ ai_sessions[k].player_game.hits) = 1

\* C33: in every state of a /make-move session the player has fired at as
\* many cells as the opponent, or at exactly one more and then the player
\* has won; every move the opponent is asked for is an untried cell of the
\* board, in every difficulty.
C33_ShotCountsInStep ==
    \A k \in SessionKeys :
        sessions[k] # NoSession =>
            LET p == Cardinality(Shots(sessions[k].player_target))
                a == Cardinality(Shots(sessions[k].ai_target))
            IN  /\ (p = a) \/ (p = a + 1 /\ PlayerWon(sessions[k]))
                /\ \A c \in Shots(sessions[k].ai_target) :
                       OnBoard(c, sessions[k].ai_target.size)

\* after the player's winning shot: one more cell than the opponent's three
C33_Witness ==
    \E k \in SessionKeys :
        /\ sessions[k] # NoSession
        /\ PlayerWon(sessions[k])
        /\ Cardinality(Shots(sessions[k].ai_target)) = 3
        /\ Cardinality(Shots(sessions[k].player_target)) = 4

\* C34: every move a rule-based lobby strategy (Rookie, Veteran, Admiral)
\* returns while it has an untried cell left is a cell of the board that the
\* strategy has not fired at before.
C34_RuleBasedMoveUntried ==
    [][(/\ req'.op = "ai/shot"
        /\ req'.asked = 1
        /\ req'.status = "ok"
        /\ ai_sessions[LobbyKey(req')].ai_opponent.kind \in {"rookie", "veteran", "admiral"})
         => LET pre == ai_sessions[LobbyKey(req')].ai_opponent
                c == ai_sessions'[LobbyKey(req')].last_ai_move
            IN  (Available(pre) # <<>>)
                   => (OnBoard(c, pre.size) /\ c \notin SeqToSet(pre.previous_moves))]_vars

\* the cells of a board of the given size
Board(size) == (0..(size - 1)) \X (0..(size - 1))

\* a /make-move request is refused only for a game that is over or for
\* coordinates off the board, and an accepted new shot adds one cell to the
\* cells the player has fired at
MakeMoveCounts ==
    (req'.op = "make-move") =>
        LET pre == sessions[ReqKey(req')]
            post == sessions'[ReqKey(req')]
        IN  /\ (req'.outcome = "game over") => IsOver(pre)
            /\ (req'.outcome = "invalid") => ~req'.onboard
            /\ (req'.outcome = "played") =>
                  (Cardinality(Shots(post.player_target))
                     = Cardinality(ShotsBefore(pre, "player")) + 1)

\* an /ai/shot request of a rule-based tier is ignored only when the game is
\* over, and an accepted new shot adds one cell to the cells the player has
\* fired at
AiShotCounts ==
    (/\ req'.op = "ai/shot"
     /\ ai_sessions[LobbyKey(req')] # NoSession
     /\ ai_sessions[LobbyKey(req')].ai_opponent.kind # "llm") =>
        LET pre == ai_sessions[LobbyKey(req')]
            post == ai_sessions'[LobbyKey(req')]
        IN  /\ (req'.presult = NoResult) =>
                  (pre.turn = "game_over"
                     /\ (AllHit(pre.player_game) \/ AllHit(pre.ai_game)))
            /\ (req'.presult # NoResult /\ ~Get(req'.presult, "repeat")) =>
                  (Cardinality(Shots(post.player_game))
                     = Cardinality(Shots(pre.player_game)) + 1)

\* while a game is not over, a cell of the board is left that the player has
\* not fired at
CellLeftUntilOver ==
    /\ \A k \in SessionKeys :
          (sessions[k] # NoSession /\ ~IsOver(sessions[k])) =>
              (Board(sessions[k].player_target.size)
                  \ Shots(sessions[k].player_target) # {})
    /\ \A k \in LobbyKeys :
          (ai_sessions[k] # NoSession /\ ai_sessions[k].ai_opponent.kind # "llm"
             /\ ai_sessions[k].turn # "game_over") =>
              (Board(ai_sessions[k].player_game.size)
                  \ Shots(ai_sessions[k].player_game) # {})

PlacingBounded ==
    /\ placing.attempts \in 0..max_attempts
    /\ placing.i \in 0..Len(PlacingFleet)
    /\ (placing.i = 1) => (placing.attempts = 0 /\ game.ships = {})
    /\ (placing.i # 1) => (Len(game.placed) >= 1 /\ game.ships # {})
    /\ (placing = NoPlacing) => (game.placed \in EngineFleets[game.size])
    /\ (placing.i >= 1 /\ placing.attempts < max_attempts) => ENABLED PlaceAttempt
PlacingSteps ==
    /\ PlaceAttempt =>
         /\ placing.attempts < max_attempts
         /\ (placing.i = 1) => (Len(game.placed') = 1 /\ placing' = AfterShip(1))
    /\ PlaceGiveUp =>
         /\ game' = game
         /\ placing' = AfterShip(placing.i)
\* C36: place_fleet always terminates: it makes at most 100 placement attempts
\* per ship, leaves out (without failing) a ship that could not be placed and
\* still attempts the ships after it, places the first ship on its first
\* attempt, and so never leaves the fleet empty.
C36_PlaceFleetTerminates ==
    /\ []PlacingBounded
    /\ [][PlacingSteps]_vars
    /\ (placing # NoPlacing) ~> (placing = NoPlacing)
\* on the standard board two ships were left out, the ship after them was
\* placed, and the last ship has used up its attempts
C36_Witness ==
    /\ game.size = STANDARD_BOARD_SIZE
    /\ placing = [i |-> Len(PlacingFleet), attempts |-> max_attempts]
    /\ Len(game.placed) = 2
    /\ Cardinality(game.placed[2]) = 2


\* the allowed login calls made at a time within the window that ends at `at`
AllowedInWindow(at) ==
    {i \in 1..Len(rate_history[LoginKey].allowed) :
        /\ rate_history[LoginKey].allowed[i] <= at
        /\ at - rate_history[LoginKey].allowed[i] < rate_cfg.window}
\* the calls that passed the count check and have not appended yet
PassedCheck == {r \in Requests : in_flight[r].pc = "append"}

\* C37: with several login requests from one client address running at once
\* on worker threads, check_rate_limit still allows at most `limit` calls
\* within one window and loses no recorded call: two calls cannot both pass
\* the count check on a bucket holding limit - 1 entries, and a timestamp one
\* call appended is never dropped when another call replaces the bucket list.
C37_RateLimitHoldsUnderRace ==
    /\ [](\A at \in 0..MaxTime : Cardinality(AllowedInWindow(at)) <= rate_cfg.limit)
    /\ [](Len(rate_limit_store[LoginKey]) + Cardinality(PassedCheck) <= rate_cfg.limit)
    /\ [][\A r \in Requests :
            (in_flight[r].pc = "replace" /\ in_flight'[r].pc = "count") =>
                rate_limit_store'[LoginKey] =
                    Younger(rate_limit_store[LoginKey], in_flight[r].at, rate_cfg.window)]_vars


\* the waiting requests a step took out of in_flight
Handled == {r \in Requests : in_flight[r] # NoRequest /\ in_flight'[r] = NoRequest}

\* C38: with several /make-move and /new requests for one session key in
\* flight at once, each step of the server is the turn resolution of one
\* request on the session as the previous one left it: a score row is added
\* only by the request whose shot wins the game, one row per won game, and a
\* played shot adds exactly its own, new cell to the player's shots.
C38_HandlersRunOneAtATime ==
    [][LET pre == sessions[ReqKey(req')]
           post == sessions'[ReqKey(req')]
       IN  /\ Cardinality(Handled) <= 1
           /\ (sessions' # sessions \/ scores' # scores) => Cardinality(Handled) = 1
           /\ \A r \in Handled :
                /\ \A q \in Requests \ {r} : in_flight'[q] = in_flight[q]
                /\ (scores' # scores) =>
                      /\ in_flight[r].op = "make-move"
                      /\ ~IsOver(pre)
                      /\ PlayerWon(post)
                      /\ Len(scores') = Len(scores) + 1
                      /\ SubSeq(scores', 1, Len(scores)) = scores
                /\ (in_flight[r].op = "make-move" /\ pre # NoSession) =>
                      IF req'.outcome = "played"
                      THEN /\ in_flight[r].xy \notin Shots(pre.player_target)
                           /\ Shots(post.player_target) =
                                 Shots(pre.player_target) \cup {in_flight[r].xy}
                           /\ Cardinality(Shots(post.ai_target))
                                 <= Cardinality(Shots(pre.ai_target)) + 1
                      ELSE /\ Shots(post.player_target) = Shots(pre.player_target)
                           /\ Shots(post.ai_target) = Shots(pre.ai_target)]_vars

\* the winning shot of a signed-in player was handled and scored while a
\* shot at a cell that is already hit is still waiting to run
C38_Witness ==
    /\ Len(scores) = 1
    /\ req.op = "make-move"
    /\ req.outcome = "played"
    /\ Get(req.presult, "won")
    /\ \E r \in Requests :
         /\ in_flight[r].op = "make-move"
         /\ in_flight[r].xy \in sessions[ReqKey(req)].player_target.hits
         /\ PlayerWon(sessions[ReqKey(req)])


\* the game the client of the earlier routes last created or shot at
InProgress(r, games, guest) ==
    IF r.user = NoUser THEN guest ELSE games[GameKey(r.user, r.playing, r.tier)]

\* C39: in the earlier game routes GET /game-status is read-only: for a
\* signed-in user and for a guest, whatever the board size of the game in
\* progress, the request does not replace that game or change its ships, hits
\* or misses, and the statistics it reports are those of that game.
C39_GameStatusReadOnly ==
    [][(req # NoReq /\ req.playing # 0 /\ req'.op = "game-status") =>
          /\ InProgress(req, user_games', guest_game') = InProgress(req, user_games, guest_game)
          /\ req'.status = GetStats(InProgress(req, user_games, guest_game))]_vars


\* a list of ship lengths with its smallest length removed n times (or until
\* it is empty)
RECURSIVE WithoutSmallest(_, _)
WithoutSmallest(lengths, n) ==
    IF n = 0 \/ lengths = <<>> THEN lengths
    ELSE WithoutSmallest(RemoveFirst(lengths, MinOfSeq(lengths)), n - 1)

\* C40: _remaining_ship_sizes starts from the fleet table entry of the board
\* size and removes the smallest outstanding ship length once per recorded
\* hit; the list it returns is never empty.
C40_RemainingShipSizes ==
    [][RemainingShipSizesCall =>
         LET expected == WithoutSmallest(GetFleetConfig(game.size), Cardinality(game.hits))
         IN  /\ result'.remaining # <<>>
             /\ (expected # <<>>) => (result'.remaining = expected)]_vars

====
